---- MODULE Spec2Model ----
(***************************************************************************)
(* Column storage layer of realm-core: string, string-enum, binary and     *)
(* integer columns over a B+-tree with per-leaf encodings, their search    *)
(* index, and the sub-table column with its accessor map.                  *)
(*                                                                         *)
(* Row indices are 0-based as in the C++ code; TLA+ sequences are 1-based, *)
(* so element i of a leaf is elems[i + 1].                                 *)
(*                                                                         *)
(* The inner levels of a B+-tree are represented by the left-to-right      *)
(* sequence of its leaves: a root that is an inner node is                 *)
(* [inner |-> TRUE, leaves |-> <<leaf, leaf, ...>>].                       *)
(***************************************************************************)
EXTENDS Integers, Sequences, FiniteSets, TLC

(***************************************************************************)
(* Bounds of the model.                                                    *)
(***************************************************************************)
\* most rows a column holds
MaxRows == 3
\* REALM_MAX_BPNODE_SIZE, the most elements of one leaf, scaled down
MaxLeaf == 2
\* most rows one insert call adds
MaxInsert == 2

(***************************************************************************)
(* Program constants.                                                      *)
(***************************************************************************)
small_string_max_size == 15
medium_string_max_size == 63
small_blob_max_size == 64

npos == 0 - 1
not_found == 0 - 1

(***************************************************************************)
(* Values.  A string or blob is modelled by its size (its bytes are "a"    *)
(* repeated); null has size 0 and is distinct from every non-null value.   *)
(***************************************************************************)
StringData(n) == [size |-> n, is_null |-> FALSE]
null == [size |-> 0, is_null |-> TRUE]

\* sizes on both sides of each encoding threshold
StringValues == {StringData(1), StringData(16), StringData(64)}
BinaryValues == {StringData(64), StringData(65)}
EnumValues == {StringData(1), StringData(16)}
IntValues == {0, 1, 2}

(***************************************************************************)
(* Sequences with 0-based positions.                                       *)
(***************************************************************************)
At(s, i) == s[i + 1]
SetAt(s, i, v) == [s EXCEPT ![i + 1] = v]
EraseAt(s, i) == SubSeq(s, 1, i) \o SubSeq(s, i + 2, Len(s))
InsertAt(s, i, v) == SubSeq(s, 1, i) \o <<v>> \o SubSeq(s, i + 1, Len(s))
Min(a, b) == IF a < b THEN a ELSE b

(***************************************************************************)
(* Leaves.  A leaf is its two header bits and its elements.                *)
(*   has_refs context_flag                                                 *)
(*      0         0        ArrayString (small) / ArrayInteger              *)
(*      1         0        ArrayStringLong (medium) / ArrayBinary          *)
(*      1         1        ArrayBigBlobs (big)                             *)
(***************************************************************************)
ArrayString_create == [has_refs |-> FALSE, context_flag |-> FALSE, elems |-> <<>>]
ArrayStringLong_create == [has_refs |-> TRUE, context_flag |-> FALSE, elems |-> <<>>]
ArrayBigBlobs_create == [has_refs |-> TRUE, context_flag |-> TRUE, elems |-> <<>>]
ArrayBinary_create == [has_refs |-> TRUE, context_flag |-> FALSE, elems |-> <<>>]
ArrayInteger_create == [has_refs |-> FALSE, context_flag |-> FALSE, elems |-> <<>>]

leaf_size(leaf) == Len(leaf.elems)
leaf_get(leaf, ndx) == At(leaf.elems, ndx)
leaf_set(leaf, ndx, value) == [leaf EXCEPT !.elems = SetAt(@, ndx, value)]
leaf_erase(leaf, ndx) == [leaf EXCEPT !.elems = EraseAt(@, ndx)]
leaf_clear(leaf) == [leaf EXCEPT !.elems = <<>>]

\* Array*::bptree_leaf_insert: insert in place, or split a full leaf; the
\* new sibling has the encoding of the leaf it splits off.
bptree_leaf_insert(leaf, ndx, value) ==
    LET size == leaf_size(leaf)
        ndx_2 == IF ndx = npos \/ size < ndx THEN size ELSE ndx
    IN  IF size < MaxLeaf
        THEN [leaf |-> [leaf EXCEPT !.elems = InsertAt(@, ndx_2, value)],
              split |-> FALSE, sibling |-> leaf_clear(leaf)]
        ELSE IF ndx_2 = size
        THEN [leaf |-> leaf, split |-> TRUE,
              sibling |-> [leaf EXCEPT !.elems = <<value>>]]
        ELSE [leaf |-> [leaf EXCEPT !.elems = Append(SubSeq(@, 1, ndx_2), value)],
              split |-> TRUE,
              sibling |-> [leaf EXCEPT !.elems = SubSeq(@, ndx_2 + 1, size)]]

\* a variant of copy_leaf that adds the elements last to first
copy_leaf_backwards(from, to) ==
    [to EXCEPT !.elems =
        @ \o [i \in 1..Len(from.elems) |-> from.elems[Len(from.elems) + 1 - i]]]

\* copy_leaf: every element of `from` is added to `to`, in order
copy_leaf(from, to) == [to EXCEPT !.elems = @ \o from.elems]

(***************************************************************************)
(* B+-tree nodes.                                                          *)
(***************************************************************************)
RootLeaf(leaf) == [inner |-> FALSE, leaves |-> <<leaf>>]
root_is_leaf(T) == ~T.inner

RECURSIVE LeafOffset(_, _)
\* number of elements before leaf k
LeafOffset(leaves, k) ==
    IF k = 1 THEN 0 ELSE LeafOffset(leaves, k - 1) + leaf_size(leaves[k - 1])

get_bptree_size(T) == LeafOffset(T.leaves, Len(T.leaves) + 1)

\* BpTreeNode::get_bptree_leaf: the leaf holding element ndx and the
\* element's index in it; npos addresses the last leaf
get_bptree_leaf(T, ndx) ==
    IF ndx = npos
    THEN [leaf |-> Len(T.leaves), ndx_in_leaf |-> npos]
    ELSE LET k == CHOOSE k \in 1..Len(T.leaves) :
                      /\ LeafOffset(T.leaves, k) <= ndx
                      /\ ndx < LeafOffset(T.leaves, k) + leaf_size(T.leaves[k])
         IN  [leaf |-> k, ndx_in_leaf |-> ndx - LeafOffset(T.leaves, k)]

tree_size(T) == IF root_is_leaf(T) THEN leaf_size(T.leaves[1]) ELSE get_bptree_size(T)

tree_get(T, ndx) ==
    IF root_is_leaf(T)
    THEN leaf_get(T.leaves[1], ndx)
    ELSE LET p == get_bptree_leaf(T, ndx)
         IN  leaf_get(T.leaves[p.leaf], p.ndx_in_leaf)

\* ColumnBaseSimple::introduce_new_root: the old root and the new sibling
\* become the two children of a new inner root
introduce_new_root(T, sibling) == [inner |-> TRUE, leaves |-> T.leaves \o <<sibling>>]

\* the result of a leaf insert put back under an inner root
bptree_put(T, k, r) ==
    [T EXCEPT !.leaves =
        IF r.split
        THEN SubSeq(@, 1, k - 1) \o <<r.leaf, r.sibling>> \o SubSeq(@, k + 1, Len(@))
        ELSE [@ EXCEPT ![k] = r.leaf]]

(***************************************************************************)
(* StringColumn: the tree part of each operation.                          *)
(***************************************************************************)
\* StringColumn::upgrade_root_leaf
upgrade_root_leaf(T, value_size) ==
    LET leaf == T.leaves[1]
    IN  IF leaf.has_refs
        THEN IF leaf.context_flag THEN T
             ELSE IF value_size <= medium_string_max_size THEN T
             ELSE RootLeaf(copy_leaf(leaf, ArrayBigBlobs_create))
        ELSE IF value_size <= small_string_max_size THEN T
        ELSE IF value_size <= medium_string_max_size
        THEN RootLeaf(copy_leaf(leaf, ArrayStringLong_create))
        ELSE RootLeaf(copy_leaf(leaf, ArrayBigBlobs_create))

\* a variant of SetLeafElem::update that never upgrades the leaf
SetLeafElem_update_in_place(leaf, elem_ndx_in_leaf, value) ==
    leaf_set(leaf, elem_ndx_in_leaf, value)

\* SetLeafElem::update
SetLeafElem_update(leaf, elem_ndx_in_leaf, value) ==
    IF leaf.has_refs
    THEN IF leaf.context_flag
         THEN leaf_set(leaf, elem_ndx_in_leaf, value)
         ELSE IF value.size <= medium_string_max_size
         THEN leaf_set(leaf, elem_ndx_in_leaf, value)
         ELSE leaf_set(copy_leaf(leaf, ArrayBigBlobs_create), elem_ndx_in_leaf, value)
    ELSE IF value.size <= small_string_max_size
    THEN leaf_set(leaf, elem_ndx_in_leaf, value)
    ELSE IF value.size <= medium_string_max_size
    THEN leaf_set(copy_leaf(leaf, ArrayStringLong_create), elem_ndx_in_leaf, value)
    ELSE leaf_set(copy_leaf(leaf, ArrayBigBlobs_create), elem_ndx_in_leaf, value)

\* a variant of StringColumn::leaf_insert whose upgrade leaves copy_leaf out
StringColumn_leaf_insert_no_copy(leaf, insert_ndx, value) ==
    IF leaf.has_refs
    THEN IF leaf.context_flag \/ value.size <= medium_string_max_size
         THEN bptree_leaf_insert(leaf, insert_ndx, value)
         ELSE bptree_leaf_insert(ArrayBigBlobs_create, insert_ndx, value)
    ELSE IF value.size <= small_string_max_size
    THEN bptree_leaf_insert(leaf, insert_ndx, value)
    ELSE IF value.size <= medium_string_max_size
    THEN bptree_leaf_insert(ArrayStringLong_create, insert_ndx, value)
    ELSE bptree_leaf_insert(ArrayBigBlobs_create, insert_ndx, value)

\* StringColumn::leaf_insert
StringColumn_leaf_insert(leaf, insert_ndx, value) ==
    IF leaf.has_refs
    THEN IF leaf.context_flag
         THEN bptree_leaf_insert(leaf, insert_ndx, value)
         ELSE IF value.size <= medium_string_max_size
         THEN bptree_leaf_insert(leaf, insert_ndx, value)
         ELSE bptree_leaf_insert(copy_leaf(leaf, ArrayBigBlobs_create), insert_ndx, value)
    ELSE IF value.size <= small_string_max_size
    THEN bptree_leaf_insert(leaf, insert_ndx, value)
    ELSE IF value.size <= medium_string_max_size
    THEN bptree_leaf_insert(copy_leaf(leaf, ArrayStringLong_create), insert_ndx, value)
    ELSE bptree_leaf_insert(copy_leaf(leaf, ArrayBigBlobs_create), insert_ndx, value)

\* BpTreeNode::update_bptree_elem with SetLeafElem
StringColumn_update_bptree_elem(T, elem_ndx, value) ==
    LET p == get_bptree_leaf(T, elem_ndx)
    IN  [T EXCEPT !.leaves[p.leaf] = SetLeafElem_update(@, p.ndx_in_leaf, value)]

\* StringColumn::set, after the search index
StringColumn_tree_set(T, ndx, value) ==
    IF root_is_leaf(T)
    THEN LET U == upgrade_root_leaf(T, value.size)
         IN  [U EXCEPT !.leaves[1] = leaf_set(@, ndx, value)]
    ELSE StringColumn_update_bptree_elem(T, ndx, value)

\* a variant of EraseLeafElem::erase_leaf_elem that erases the element of
\* a leaf with one element too and keeps the leaf
erase_leaf_elem_keeps_leaf(leaf, elem_ndx_in_leaf) ==
    LET last_ndx == leaf_size(leaf) - 1
        ndx == IF elem_ndx_in_leaf = npos THEN last_ndx ELSE elem_ndx_in_leaf
    IN  [leaf |-> leaf_erase(leaf, ndx), destroy |-> FALSE]

\* EraseLeafElem::erase_leaf_elem (all three encodings alike): a leaf with
\* one element is left alone and reported for removal
erase_leaf_elem(leaf, elem_ndx_in_leaf) ==
    LET last_ndx == leaf_size(leaf) - 1
        ndx == IF elem_ndx_in_leaf = npos THEN last_ndx ELSE elem_ndx_in_leaf
    IN  IF last_ndx = 0
        THEN [leaf |-> leaf, destroy |-> TRUE]
        ELSE [leaf |-> leaf_erase(leaf, ndx), destroy |-> FALSE]

\* a variant of EraseLeafElem::replace_root_by_leaf that makes the new root
\* a small leaf
replace_root_by_small_leaf(leaf) ==
    RootLeaf([leaf EXCEPT !.has_refs = FALSE, !.context_flag = FALSE])

\* EraseLeafElem::replace_root_by_leaf: the leaf keeps its encoding
replace_root_by_leaf(leaf) == RootLeaf(leaf)

\* StringColumn::EraseLeafElem::replace_root_by_empty_leaf
StringColumn_replace_root_by_empty_leaf == RootLeaf(ArrayString_create)

\* BpTreeNode::erase_bptree_elem: a leaf reported for removal is destroyed
\* and taken out of its parent; a root left with one child is replaced by
\* it, a root left with none by an empty leaf
erase_bptree_elem(T, elem_ndx, empty_root) ==
    LET p == get_bptree_leaf(T, elem_ndx)
        r == erase_leaf_elem(T.leaves[p.leaf], p.ndx_in_leaf)
        leaves_2 == IF r.destroy
                    THEN EraseAt(T.leaves, p.leaf - 1)
                    ELSE [T.leaves EXCEPT ![p.leaf] = r.leaf]
    IN  IF Len(leaves_2) = 0 THEN empty_root
        ELSE IF Len(leaves_2) = 1 THEN replace_root_by_leaf(leaves_2[1])
        ELSE [T EXCEPT !.leaves = leaves_2]

\* StringColumn::do_erase, after the search index
StringColumn_tree_erase(T, ndx, is_last) ==
    IF root_is_leaf(T)
    THEN [T EXCEPT !.leaves[1] = leaf_erase(@, ndx)]
    ELSE erase_bptree_elem(T, IF is_last THEN npos ELSE ndx,
                           StringColumn_replace_root_by_empty_leaf)

\* StringColumn::do_move_last_over, after the search index
StringColumn_tree_move_last_over(T, row_ndx, last_row_ndx, copy_of_value) ==
    IF root_is_leaf(T)
    THEN [T EXCEPT !.leaves[1] =
             leaf_erase(leaf_set(@, row_ndx, copy_of_value), last_row_ndx)]
    ELSE erase_bptree_elem(
             StringColumn_update_bptree_elem(T, row_ndx, copy_of_value),
             npos, StringColumn_replace_root_by_empty_leaf)

\* a variant of the tree part of StringColumn::do_clear that always reverts
\* to a small strings leaf
StringColumn_tree_clear_to_small(T) == RootLeaf(ArrayString_create)

\* StringColumn::do_clear, before the search index
StringColumn_tree_clear(T) ==
    IF root_is_leaf(T)
    THEN [T EXCEPT !.leaves[1] = leaf_clear(@)]
    ELSE RootLeaf(ArrayString_create)

\* one round of the loop of StringColumn::bptree_insert
StringColumn_bptree_insert_1(T, row_ndx_2, value) ==
    IF root_is_leaf(T)
    THEN LET U == upgrade_root_leaf(T, value.size)
             r == bptree_leaf_insert(U.leaves[1], row_ndx_2, value)
         IN  IF r.split THEN introduce_new_root(RootLeaf(r.leaf), r.sibling)
             ELSE RootLeaf(r.leaf)
    ELSE LET p == get_bptree_leaf(T, row_ndx_2)
         IN  bptree_put(T, p.leaf,
                        StringColumn_leaf_insert(T.leaves[p.leaf], p.ndx_in_leaf, value))

RECURSIVE StringColumn_bptree_insert_from(_, _, _, _, _)
StringColumn_bptree_insert_from(T, row_ndx, value, num_rows, i) ==
    IF i = num_rows THEN T
    ELSE StringColumn_bptree_insert_from(
             StringColumn_bptree_insert_1(T, IF row_ndx = npos THEN npos ELSE row_ndx + i,
                                          value),
             row_ndx, value, num_rows, i + 1)

\* StringColumn::bptree_insert
StringColumn_bptree_insert(T, row_ndx, value, num_rows) ==
    StringColumn_bptree_insert_from(T, row_ndx, value, num_rows, 0)

(***************************************************************************)
(* BinaryColumn.  It has no search index.                                  *)
(***************************************************************************)
\* BinaryColumn::upgrade_root_leaf
BinaryColumn_upgrade_root_leaf(T, value_size) ==
    LET leaf == T.leaves[1]
    IN  IF leaf.context_flag THEN T
        ELSE IF value_size <= small_blob_max_size THEN T
        ELSE RootLeaf(copy_leaf(leaf, ArrayBigBlobs_create))

\* SetLeafElem::update of the binary column
BinaryColumn_SetLeafElem_update(leaf, elem_ndx_in_leaf, value) ==
    IF leaf.context_flag
    THEN leaf_set(leaf, elem_ndx_in_leaf, value)
    ELSE IF value.size <= small_blob_max_size
    THEN leaf_set(leaf, elem_ndx_in_leaf, value)
    ELSE leaf_set(copy_leaf(leaf, ArrayBigBlobs_create), elem_ndx_in_leaf, value)

\* BinaryColumn::leaf_insert
BinaryColumn_leaf_insert(leaf, insert_ndx, value) ==
    IF leaf.context_flag
    THEN bptree_leaf_insert(leaf, insert_ndx, value)
    ELSE IF value.size <= small_blob_max_size
    THEN bptree_leaf_insert(leaf, insert_ndx, value)
    ELSE bptree_leaf_insert(copy_leaf(leaf, ArrayBigBlobs_create), insert_ndx, value)

\* BinaryColumn::set
BinaryColumn_set(T, ndx, value) ==
    IF root_is_leaf(T)
    THEN LET U == BinaryColumn_upgrade_root_leaf(T, value.size)
         IN  [U EXCEPT !.leaves[1] = leaf_set(@, ndx, value)]
    ELSE LET p == get_bptree_leaf(T, ndx)
         IN  [T EXCEPT !.leaves[p.leaf] =
                 BinaryColumn_SetLeafElem_update(@, p.ndx_in_leaf, value)]

\* BinaryColumn::EraseLeafElem::replace_root_by_empty_leaf
BinaryColumn_replace_root_by_empty_leaf == RootLeaf(ArrayBinary_create)

\* BinaryColumn::erase
BinaryColumn_erase(T, ndx, is_last) ==
    IF root_is_leaf(T)
    THEN [T EXCEPT !.leaves[1] = leaf_erase(@, ndx)]
    ELSE erase_bptree_elem(T, IF is_last THEN npos ELSE ndx,
                           BinaryColumn_replace_root_by_empty_leaf)

\* a variant of BinaryColumn::do_move_last_over that only drops the last row
BinaryColumn_do_move_last_over_no_set(T, row_ndx, last_row_ndx) ==
    BinaryColumn_erase(T, last_row_ndx, TRUE)

\* BinaryColumn::do_move_last_over
BinaryColumn_do_move_last_over(T, row_ndx, last_row_ndx) ==
    LET value == tree_get(T, last_row_ndx)
    IN  BinaryColumn_erase(BinaryColumn_set(T, row_ndx, value), last_row_ndx, TRUE)

\* BinaryColumn::swap_rows
BinaryColumn_swap_rows(T, row_ndx_1, row_ndx_2) ==
    LET value_1 == tree_get(T, row_ndx_1)
        value_2 == tree_get(T, row_ndx_2)
    IN  IF value_1.is_null /\ value_2.is_null THEN T
        ELSE BinaryColumn_set(BinaryColumn_set(T, row_ndx_2, value_1), row_ndx_1, value_2)

\* BinaryColumn::do_clear
BinaryColumn_do_clear(T) ==
    IF root_is_leaf(T)
    THEN [T EXCEPT !.leaves[1] = leaf_clear(@)]
    ELSE RootLeaf(ArrayBinary_create)

\* one round of the loop of BinaryColumn::do_insert
BinaryColumn_do_insert_1(T, row_ndx_2, value) ==
    IF root_is_leaf(T)
    THEN LET U == BinaryColumn_upgrade_root_leaf(T, value.size)
             r == bptree_leaf_insert(U.leaves[1], row_ndx_2, value)
         IN  IF r.split THEN introduce_new_root(RootLeaf(r.leaf), r.sibling)
             ELSE RootLeaf(r.leaf)
    ELSE LET p == get_bptree_leaf(T, row_ndx_2)
         IN  bptree_put(T, p.leaf,
                        BinaryColumn_leaf_insert(T.leaves[p.leaf], p.ndx_in_leaf, value))

RECURSIVE BinaryColumn_do_insert_from(_, _, _, _, _)
BinaryColumn_do_insert_from(T, row_ndx, value, num_rows, i) ==
    IF i = num_rows THEN T
    ELSE BinaryColumn_do_insert_from(
             BinaryColumn_do_insert_1(T, IF row_ndx = npos THEN npos ELSE row_ndx + i,
                                      value),
             row_ndx, value, num_rows, i + 1)

\* BinaryColumn::do_insert
BinaryColumn_do_insert(T, row_ndx, value, num_rows) ==
    BinaryColumn_do_insert_from(T, row_ndx, value, num_rows, 0)

(***************************************************************************)
(* BpTree<T>, the tree of the integer columns: one leaf encoding.          *)
(***************************************************************************)
BpTree_set(T, ndx, value) ==
    IF root_is_leaf(T)
    THEN [T EXCEPT !.leaves[1] = leaf_set(@, ndx, value)]
    ELSE LET p == get_bptree_leaf(T, ndx)
         IN  [T EXCEPT !.leaves[p.leaf] = leaf_set(@, p.ndx_in_leaf, value)]

BpTree_insert_1(T, row_ndx_2, value) ==
    IF root_is_leaf(T)
    THEN LET r == bptree_leaf_insert(T.leaves[1], row_ndx_2, value)
         IN  IF r.split THEN introduce_new_root(RootLeaf(r.leaf), r.sibling)
             ELSE RootLeaf(r.leaf)
    ELSE LET p == get_bptree_leaf(T, row_ndx_2)
         IN  bptree_put(T, p.leaf,
                        bptree_leaf_insert(T.leaves[p.leaf], p.ndx_in_leaf, value))

RECURSIVE BpTree_insert_from(_, _, _, _, _)
BpTree_insert_from(T, row_ndx, value, num_rows, i) ==
    IF i = num_rows THEN T
    ELSE BpTree_insert_from(
             BpTree_insert_1(T, IF row_ndx = npos THEN npos ELSE row_ndx + i, value),
             row_ndx, value, num_rows, i + 1)

BpTree_insert(T, row_ndx, value, num_rows) ==
    BpTree_insert_from(T, row_ndx, value, num_rows, 0)

BpTree_erase(T, ndx, is_last) ==
    IF root_is_leaf(T)
    THEN [T EXCEPT !.leaves[1] = leaf_erase(@, ndx)]
    ELSE erase_bptree_elem(T, IF is_last THEN npos ELSE ndx,
                           RootLeaf(ArrayInteger_create))

BpTree_move_last_over(T, row_ndx, last_row_ndx) ==
    BpTree_erase(BpTree_set(T, row_ndx, tree_get(T, last_row_ndx)), last_row_ndx, TRUE)

BpTree_clear(T) ==
    IF root_is_leaf(T)
    THEN [T EXCEPT !.leaves[1] = leaf_clear(@)]
    ELSE RootLeaf(ArrayInteger_create)

(***************************************************************************)
(* Scans.                                                                  *)
(***************************************************************************)
\* Array*::find_first over [begin, end) of one leaf
leaf_find_first(leaf, value, begin, end) ==
    LET hits == {i \in begin..(end - 1) : leaf_get(leaf, i) = value}
    IN  IF hits = {} THEN not_found
        ELSE CHOOSE i \in hits : \A j \in hits : i <= j

\* one iteration of the leaf loop of StringColumn::count: the leaf that
\* holds element begin, the index of that element in it (asserted to be 0),
\* and "begin += leaf.size()"
count_step(T, begin) ==
    LET p == get_bptree_leaf(T, begin)
    IN  [ndx_in_leaf |-> p.ndx_in_leaf,
         begin |-> begin + leaf_size(T.leaves[p.leaf])]

\* one iteration of the leaf loop of StringColumn::find_first and find_all
\* that finds nothing: "ndx_in_tree = leaf_offset + end_in_leaf"
find_step(T, ndx_in_tree, end) ==
    LET p == get_bptree_leaf(T, ndx_in_tree)
        leaf_offset == ndx_in_tree - p.ndx_in_leaf
        end_in_leaf == Min(leaf_size(T.leaves[p.leaf]), end - leaf_offset)
    IN  leaf_offset + end_in_leaf

RECURSIVE find_first_from(_, _, _, _)
\* the leaf loop of StringColumn::find_first
find_first_from(T, value, ndx_in_tree, end) ==
    IF ~(ndx_in_tree < end) THEN not_found
    ELSE LET p == get_bptree_leaf(T, ndx_in_tree)
             leaf == T.leaves[p.leaf]
             leaf_offset == ndx_in_tree - p.ndx_in_leaf
             end_in_leaf == Min(leaf_size(leaf), end - leaf_offset)
             ndx == leaf_find_first(leaf, value, p.ndx_in_leaf, end_in_leaf)
         IN  IF ndx # not_found THEN leaf_offset + ndx
             ELSE find_first_from(T, value, leaf_offset + end_in_leaf, end)

\* StringColumn::find_first without a search index
scan_find_first(T, value, begin, end) ==
    IF root_is_leaf(T)
    THEN leaf_find_first(T.leaves[1], value, begin,
                         IF end = npos THEN leaf_size(T.leaves[1]) ELSE end)
    ELSE find_first_from(T, value, begin,
                         IF end = npos THEN get_bptree_size(T) ELSE end)

(***************************************************************************)
(* State of one column.                                                    *)
(***************************************************************************)
VARIABLES
    kind,       \* "string", "enum", "binary" or "int"
    nullable,   \* m_nullable
    has_index,  \* m_search_index is set
    unique,     \* the search index rejects duplicate values
    root,       \* the column's tree (of key indices, for an enum column)
    keys,       \* m_keys of an enum column
    index,      \* the search index: a set of <<value, row>>
    model,      \* the plain sequence the column stands for
    last        \* the last operation: its arguments, outcome and steps, and
                \* the shape of the tree before it

colvars == <<kind, nullable, has_index, unique, root, keys, index, model, last>>

(***************************************************************************)
(* State of one sub-table column.                                          *)
(***************************************************************************)
VARIABLES
    cells,      \* the column's tree: per row the ref of the nested table, or 0
    live_refs,  \* the refs of the nested tables that are allocated
    entries,    \* m_subtable_map.m_entries: <<[m_subtable_ndx, m_table]>>
    accessors,  \* the Table accessors by identity: state and index in parent
    bound,      \* references the column holds on its table (bind_ptr)
    slast       \* the last operation on the sub-table column

subvars == <<cells, live_refs, entries, accessors, bound, slast>>

(***************************************************************************)
(* State of one Spec (the schema of a table) and of a second Spec it is    *)
(* compared with.                                                          *)
(***************************************************************************)
VARIABLES
    m_types,        \* one column type per column
    m_names,        \* one name per column that is not a backlink column
    m_attr,         \* one attribute set per column
    m_subspecs,     \* nested specs and tagged table and column indices
    m_subspec_ptrs, \* per subspec entry: is it a spec, and its cached accessor
    m_enumkeys,     \* one key list per StringEnum column
    m_top,          \* the top array: types, names, attr, and maybe subspecs and enumkeys
    m_subspecs_attached, \* m_subspecs.is_attached()
    m_enumkeys_attached, \* m_enumkeys.is_attached()
    links,          \* per column: the indices its setters were last given
    rhs,            \* the Spec on the right of operator==
    equal           \* the outcome of the last operator==

specvars == <<m_types, m_names, m_attr, m_subspecs, m_subspec_ptrs, m_enumkeys,
              m_top, m_subspecs_attached, m_enumkeys_attached, links, rhs, equal>>

(***************************************************************************)
(* The threads that work on one sub-table column, statement by statement.  *)
(***************************************************************************)
VARIABLES
    lock_owner,   \* the thread that holds m_subtable_map_lock, or 0
    lock_depth,   \* how often the owner has locked it
    pc,           \* per thread: the operation it is in, the statement it is
                  \* at, and whether the operation has called unbind_ptr
    n_entries,    \* the number of entries of m_subtable_map
    column_alive, \* the column has not been destroyed
    touch         \* the last statement: what it touched and what was held

lockvars == <<lock_owner, lock_depth, pc, n_entries, column_alive, touch>>

\* the table of the query tests, the query that is being built and the view
\* that FindAll returned
VARIABLES ttt, chain, tv
queryvars == <<ttt, chain, tv>>

\* whether the column accessor is attached; an integer column whose cells
\* are refs or tagged integers, the subtrees that are allocated, and the last
\* call of destroy_subtree
VARIABLES attached, slots, allocated, dlast
refvars == <<attached, slots, allocated, dlast>>

\* a leaf upgrade statement by statement: the place of the upgrade, the old
\* leaf, the new leaf, what the parent slot and the column's root accessor
\* point to, and the next statement
VARIABLES upgrade, old_leaf, new_leaf, parent_slot, root_accessor, upgrade_pc
upvars == <<upgrade, old_leaf, new_leaf, parent_slot, root_accessor, upgrade_pc>>

\* SubtableMap::refresh_accessor_tree in the middle of its loop: the map, the
\* loop variable i, the map as it was when the loop started, the sub-table
\* accessors, the visits made so far, the position in the loop, and whether an
\* entry was read that is no longer in the map
VARIABLES map_entries, loop_i, start_entries, tables, visits, refresh_pc, bad_read
refreshvars == <<map_entries, loop_i, start_entries, tables, visits, refresh_pc, bad_read>>

\* ColumnBase::lower_bound and upper_bound in the middle of their loops: the
\* sorted list and the value they are called with, the loop variables i and
\* size, which of the two is running, and what they returned
VARIABLES b_list, b_value, b_state, b_pc, b_lower, b_upper
boundvars == <<b_list, b_value, b_state, b_pc, b_lower, b_upper>>

\* StringColumn::auto_enumerate: the source column, the enforce flag, and
\* what the call left behind
VARIABLES source, enforce, enumerated
enumvars == <<source, enforce, enumerated>>

\* a column in the middle of an operation: its state, the steps taken so
\* far and the exception in flight
Col == [root |-> root, keys |-> keys, index |-> index, log |-> <<>>, thrown |-> ""]

Ok(c) == c.thrown = ""
Throw(c, e) == [c EXCEPT !.thrown = e]

Column_size(c) == tree_size(c.root)

\* StringColumn::get, BinaryColumn::get, TColumn::get; StringEnumColumn::get
\* is the key at the row's key index
Column_get(c, ndx) ==
    IF kind = "enum"
    THEN tree_get(c.keys, tree_get(c.root, ndx))
    ELSE tree_get(c.root, ndx)

ColumnValues(c) == [i \in 1..Column_size(c) |-> Column_get(c, i - 1)]

\* record one step, and whether the column still returns the values it
\* returned when the operation began
Step(c, name, row, value, is_last, to) ==
    [c EXCEPT !.log = Append(@, [step |-> name, row |-> row, value |-> value,
                                 is_last |-> is_last, to |-> to,
                                 old_values |-> ColumnValues(c) = ColumnValues(Col)])]

(***************************************************************************)
(* StringIndex.  It looks a row's present value up in its target column.   *)
(***************************************************************************)
StringIndex_insert(c, row_ndx, value, num_rows, is_append) ==
    LET c1 == Step(c, "index.insert", row_ndx, <<value>>, is_append, npos)
        adjusted == IF is_append THEN c.index
                    ELSE {<<p[1], IF p[2] >= row_ndx THEN p[2] + num_rows ELSE p[2]>> :
                             p \in c.index}
        added == {<<value, row_ndx + i>> : i \in 0..(num_rows - 1)}
    IN  IF unique /\ ((\E p \in c.index : p[1] = value) \/ num_rows > 1)
        THEN Throw(c1, "unique_constraint")
        ELSE [c1 EXCEPT !.index = adjusted \cup added]

StringIndex_erase(c, row_ndx, is_last) ==
    LET value == Column_get(c, row_ndx)
        removed == c.index \ {<<value, row_ndx>>}
        adjusted == IF is_last THEN removed
                    ELSE {<<p[1], IF p[2] > row_ndx THEN p[2] - 1 ELSE p[2]>> :
                             p \in removed}
    IN  [Step(c, "index.erase", row_ndx, <<>>, is_last, npos) EXCEPT !.index = adjusted]

StringIndex_set(c, row_ndx, new_value) ==
    LET old_value == Column_get(c, row_ndx)
        c1 == Step(c, "index.set", row_ndx, <<new_value>>, FALSE, npos)
    IN  IF new_value = old_value THEN c1
        ELSE IF unique /\ \E p \in c.index : p[1] = new_value
        THEN Throw(c1, "unique_constraint")
        ELSE [c1 EXCEPT !.index = (@ \ {<<old_value, row_ndx>>}) \cup
                                  {<<new_value, row_ndx>>}]

StringIndex_update_ref(c, value, old_row_ndx, new_row_ndx) ==
    [Step(c, "index.update_ref", old_row_ndx, <<value>>, FALSE, new_row_ndx)
        EXCEPT !.index = (@ \ {<<value, old_row_ndx>>}) \cup {<<value, new_row_ndx>>}]

StringIndex_clear(c) ==
    [Step(c, "index.clear", npos, <<>>, FALSE, npos) EXCEPT !.index = {}]

StringIndex_find_all(idx, value) == {p[2] : p \in {q \in idx : q[1] = value}}

StringIndex_count(idx, value) == Cardinality(StringIndex_find_all(idx, value))

StringIndex_find_first(idx, value) ==
    LET rows == StringIndex_find_all(idx, value)
    IN  IF rows = {} THEN not_found
        ELSE CHOOSE r \in rows : \A s \in rows : r <= s

(***************************************************************************)
(* StringColumn operations.                                                *)
(***************************************************************************)
\* a variant of StringColumn::set that sets the value in the tree before it
\* updates the search index
StringColumn_set_tree_first(c, ndx, value) ==
    LET c1 == [Step(c, "tree.set", ndx, <<value>>, FALSE, npos)
                  EXCEPT !.root = StringColumn_tree_set(@, ndx, value)]
    IN  IF has_index THEN StringIndex_set(c1, ndx, value) ELSE c1

\* StringColumn::set
StringColumn_set(c, ndx, value) ==
    LET c1 == IF has_index THEN StringIndex_set(c, ndx, value) ELSE c
    IN  IF ~Ok(c1) THEN c1
        ELSE [Step(c1, "tree.set", ndx, <<value>>, FALSE, npos)
                 EXCEPT !.root = StringColumn_tree_set(@, ndx, value)]

\* StringColumn::set_null
StringColumn_set_null(c, ndx) ==
    IF ~nullable THEN Throw(c, "column_not_nullable")
    ELSE StringColumn_set(c, ndx, null)

\* StringColumn::do_erase
StringColumn_do_erase(c, ndx, is_last) ==
    LET c1 == IF has_index THEN StringIndex_erase(c, ndx, is_last) ELSE c
    IN  [Step(c1, "tree.erase", ndx, <<>>, is_last, npos)
            EXCEPT !.root = StringColumn_tree_erase(@, ndx, is_last)]

\* StringColumn::do_move_last_over
StringColumn_do_move_last_over(c, row_ndx, last_row_ndx) ==
    LET copy_of_value == Column_get(c, last_row_ndx)
        c1 == IF has_index THEN StringIndex_erase(c, row_ndx, TRUE) ELSE c
        c2 == IF has_index /\ row_ndx # last_row_ndx
              THEN StringIndex_update_ref(c1, copy_of_value, last_row_ndx, row_ndx)
              ELSE c1
    IN  [Step(c2, "tree.move_last_over", row_ndx, <<copy_of_value>>, FALSE, last_row_ndx)
            EXCEPT !.root = StringColumn_tree_move_last_over(@, row_ndx, last_row_ndx,
                                                             copy_of_value)]

\* StringColumn::do_swap_rows
StringColumn_do_swap_rows(c, row_ndx_1, row_ndx_2) ==
    LET value_1 == Column_get(c, row_ndx_1)
        value_2 == Column_get(c, row_ndx_2)
        c1 == StringColumn_set(c, row_ndx_2, value_1)
    IN  IF value_1.is_null /\ value_2.is_null THEN c
        ELSE IF ~Ok(c1) THEN c1
        ELSE StringColumn_set(c1, row_ndx_1, value_2)

\* a variant of StringColumn::do_clear that clears the search index first
StringColumn_do_clear_index_first(c) ==
    LET c1 == IF has_index THEN StringIndex_clear(c) ELSE c
    IN  [Step(c1, "tree.clear", npos, <<>>, FALSE, npos)
            EXCEPT !.root = StringColumn_tree_clear(@)]

\* StringColumn::do_clear
StringColumn_do_clear(c) ==
    LET c1 == [Step(c, "tree.clear", npos, <<>>, FALSE, npos)
                  EXCEPT !.root = StringColumn_tree_clear(@)]
    IN  IF has_index THEN StringIndex_clear(c1) ELSE c1

\* StringColumn::do_insert(row_ndx, value, num_rows)
StringColumn_do_insert_3(c, row_ndx, value, num_rows) ==
    LET c1 == [Step(c, "tree.insert", row_ndx, <<value>>, FALSE, npos)
                  EXCEPT !.root = StringColumn_bptree_insert(@, row_ndx, value, num_rows)]
        is_append == row_ndx = npos
        row_ndx_2 == IF is_append THEN Column_size(c1) - num_rows ELSE row_ndx
    IN  IF has_index THEN StringIndex_insert(c1, row_ndx_2, value, num_rows, is_append)
        ELSE c1

\* StringColumn::do_insert(row_ndx, value, num_rows, is_append)
StringColumn_do_insert(c, row_ndx, value, num_rows, is_append) ==
    LET row_ndx_2 == IF is_append THEN npos ELSE row_ndx
        c1 == [Step(c, "tree.insert", row_ndx, <<value>>, is_append, npos)
                  EXCEPT !.root = StringColumn_bptree_insert(@, row_ndx_2, value, num_rows)]
    IN  IF has_index THEN StringIndex_insert(c1, row_ndx, value, num_rows, is_append)
        ELSE c1

(***************************************************************************)
(* TColumn<T, N>, the integer column.                                      *)
(***************************************************************************)
\* TColumn::set
TColumn_set(c, ndx, value) ==
    LET c1 == IF has_index THEN StringIndex_set(c, ndx, value) ELSE c
    IN  IF ~Ok(c1) THEN c1
        ELSE [Step(c1, "tree.set", ndx, <<value>>, FALSE, npos)
                 EXCEPT !.root = BpTree_set(@, ndx, value)]

\* TColumn::insert(row_ndx, value, num_rows)
TColumn_insert(c, row_ndx, value, num_rows) ==
    LET size == Column_size(c)
        is_append == row_ndx = size \/ row_ndx = npos
        ndx_or_npos_if_append == IF is_append THEN npos ELSE row_ndx
        c1 == [Step(c, "tree.insert", row_ndx, <<value>>, is_append, npos)
                  EXCEPT !.root = BpTree_insert(@, ndx_or_npos_if_append, value, num_rows)]
        row_ndx_2 == IF is_append THEN size ELSE row_ndx
    IN  IF has_index THEN StringIndex_insert(c1, row_ndx_2, value, num_rows, is_append)
        ELSE c1

\* TColumn::erase(row_ndx, is_last)
TColumn_erase(c, row_ndx, is_last) ==
    LET c1 == IF has_index THEN StringIndex_erase(c, row_ndx, is_last) ELSE c
    IN  [Step(c1, "tree.erase", row_ndx, <<>>, is_last, npos)
            EXCEPT !.root = BpTree_erase(@, row_ndx, is_last)]

\* TColumn::move_last_over(row_ndx, last_row_ndx)
TColumn_move_last_over(c, row_ndx, last_row_ndx) ==
    LET c1 == IF has_index THEN StringIndex_erase(c, row_ndx, TRUE) ELSE c
        c2 == IF has_index /\ row_ndx # last_row_ndx
              THEN StringIndex_update_ref(c1, Column_get(c1, last_row_ndx),
                                          last_row_ndx, row_ndx)
              ELSE c1
    IN  [Step(c2, "tree.move_last_over", row_ndx, <<>>, FALSE, last_row_ndx)
            EXCEPT !.root = BpTree_move_last_over(@, row_ndx, last_row_ndx)]

\* TColumn::clear
TColumn_clear(c) ==
    LET c1 == IF has_index THEN StringIndex_clear(c) ELSE c
    IN  [Step(c1, "tree.clear", npos, <<>>, FALSE, npos) EXCEPT !.root = BpTree_clear(@)]

(***************************************************************************)
(* StringEnumColumn: an integer column of key indices and the key list.    *)
(***************************************************************************)
\* StringEnumColumn::get_key_ndx
get_key_ndx(c, value) == scan_find_first(c.keys, value, 0, npos)

\* a variant of StringEnumColumn::get_key_ndx_or_add that adds the value
\* without looking it up
get_key_ndx_or_add_no_lookup(c, value) ==
    LET pos == tree_size(c.keys)
    IN  [c |-> [Step(c, "keys.add", pos, <<value>>, FALSE, npos)
                   EXCEPT !.keys = StringColumn_bptree_insert(@, npos, value, 1)],
         key_ndx |-> pos]

\* StringEnumColumn::get_key_ndx_or_add
get_key_ndx_or_add(c, value) ==
    LET res == get_key_ndx(c, value)
        pos == tree_size(c.keys)
    IN  IF res # not_found THEN [c |-> c, key_ndx |-> res]
        ELSE [c |-> [Step(c, "keys.add", pos, <<value>>, FALSE, npos)
                        EXCEPT !.keys = StringColumn_bptree_insert(@, npos, value, 1)],
              key_ndx |-> pos]

\* a variant of StringEnumColumn::set that looks the key up, adding it,
\* before it rejects null
StringEnumColumn_set_late_check(c, ndx, value) ==
    LET k == get_key_ndx_or_add(c, value)
    IN  IF ~nullable /\ value.is_null THEN Throw(k.c, "column_not_nullable")
        ELSE [Step(k.c, "tree.set", ndx, <<value>>, FALSE, npos)
                 EXCEPT !.root = BpTree_set(@, ndx, k.key_ndx)]

\* StringEnumColumn::set
StringEnumColumn_set(c, ndx, value) ==
    IF ~nullable /\ value.is_null THEN Throw(c, "column_not_nullable")
    ELSE LET c1 == IF has_index THEN StringIndex_set(c, ndx, value) ELSE c
             k == get_key_ndx_or_add(c1, value)
         IN  IF ~Ok(c1) THEN c1
             ELSE [Step(k.c, "tree.set", ndx, <<value>>, FALSE, npos)
                      EXCEPT !.root = BpTree_set(@, ndx, k.key_ndx)]

\* StringEnumColumn::do_insert(row_ndx, value, num_rows)
StringEnumColumn_do_insert_3(c, row_ndx, value, num_rows) ==
    LET k == get_key_ndx_or_add(c, value)
        c1 == [Step(k.c, "tree.insert", row_ndx, <<value>>, FALSE, npos)
                  EXCEPT !.root = BpTree_insert(@, row_ndx, k.key_ndx, num_rows)]
        is_append == row_ndx = npos
        row_ndx_2 == IF is_append THEN Column_size(c1) - num_rows ELSE row_ndx
    IN  IF num_rows = 0 THEN c
        ELSE IF has_index
        THEN StringIndex_insert(c1, row_ndx_2, value, num_rows, is_append)
        ELSE c1

\* StringEnumColumn::do_insert(row_ndx, value, num_rows, is_append)
StringEnumColumn_do_insert(c, row_ndx, value, num_rows, is_append) ==
    LET k == get_key_ndx_or_add(c, value)
        row_ndx_2 == IF is_append THEN npos ELSE row_ndx
        c1 == [Step(k.c, "tree.insert", row_ndx, <<value>>, is_append, npos)
                  EXCEPT !.root = BpTree_insert(@, row_ndx_2, k.key_ndx, num_rows)]
    IN  IF num_rows = 0 THEN c
        ELSE IF has_index
        THEN StringIndex_insert(c1, row_ndx, value, num_rows, is_append)
        ELSE c1

\* StringEnumColumn::do_erase
StringEnumColumn_do_erase(c, ndx, is_last) ==
    LET c1 == IF has_index THEN StringIndex_erase(c, ndx, is_last) ELSE c
    IN  [Step(c1, "tree.erase", ndx, <<>>, is_last, npos)
            EXCEPT !.root = BpTree_erase(@, ndx, is_last)]

\* StringEnumColumn::do_move_last_over
StringEnumColumn_do_move_last_over(c, row_ndx, last_row_ndx) ==
    LET c1 == IF has_index THEN StringIndex_erase(c, row_ndx, TRUE) ELSE c
        c2 == IF has_index /\ row_ndx # last_row_ndx
              THEN StringIndex_update_ref(c1, Column_get(c1, last_row_ndx),
                                          last_row_ndx, row_ndx)
              ELSE c1
    IN  [Step(c2, "tree.move_last_over", row_ndx, <<>>, FALSE, last_row_ndx)
            EXCEPT !.root = BpTree_move_last_over(@, row_ndx, last_row_ndx)]

\* StringEnumColumn::swap_rows
StringEnumColumn_swap_rows(c, row_ndx_1, row_ndx_2) ==
    LET key_ndx_1 == tree_get(c.root, row_ndx_1)
        key_ndx_2 == tree_get(c.root, row_ndx_2)
        value_1 == Column_get(c, row_ndx_1)
        value_2 == Column_get(c, row_ndx_2)
        c1 == IF has_index THEN StringIndex_set(c, row_ndx_1, value_2) ELSE c
        c2 == IF has_index THEN StringIndex_set(c1, row_ndx_2, value_1) ELSE c1
        c3 == [Step(c2, "tree.set", row_ndx_1, <<value_2>>, FALSE, npos)
                  EXCEPT !.root = BpTree_set(@, row_ndx_1, key_ndx_2)]
    IN  IF key_ndx_1 = key_ndx_2 THEN c
        ELSE IF ~Ok(c1) THEN c1
        ELSE IF ~Ok(c2) THEN c2
        ELSE [Step(c3, "tree.set", row_ndx_2, <<value_1>>, FALSE, npos)
                 EXCEPT !.root = BpTree_set(@, row_ndx_2, key_ndx_1)]

\* a variant of StringEnumColumn::do_clear that clears the key list too
StringEnumColumn_do_clear_keys(c) ==
    LET c1 == [Step(c, "tree.clear", npos, <<>>, FALSE, npos)
                  EXCEPT !.root = BpTree_clear(@),
                         !.keys = RootLeaf(ArrayString_create)]
    IN  IF has_index THEN StringIndex_clear(c1) ELSE c1

\* StringEnumColumn::do_clear: the keys stay
StringEnumColumn_do_clear(c) ==
    LET c1 == [Step(c, "tree.clear", npos, <<>>, FALSE, npos)
                  EXCEPT !.root = BpTree_clear(@)]
    IN  IF has_index THEN StringIndex_clear(c1) ELSE c1

(***************************************************************************)
(* BinaryColumn operations on a column in the middle of an operation.      *)
(***************************************************************************)
BinaryColumn_op(c, name, row, value, to, T) ==
    [Step(c, name, row, value, FALSE, to) EXCEPT !.root = T]

(***************************************************************************)
(* The column as a state machine.  Each action is one public operation,    *)
(* dispatched on the column's class; its arguments satisfy the operation's *)
(* assertions.                                                             *)
(***************************************************************************)
Kinds == {"string", "enum", "binary", "int"}

\* the values an operation is called with; a nullable column draws null in
\* place of the shortest string
Values ==
    IF kind = "int" THEN IntValues
    ELSE IF kind = "binary" THEN BinaryValues
    ELSE IF nullable
    THEN ((IF kind = "enum" THEN EnumValues ELSE StringValues) \ {StringData(1)})
             \cup {null}
    ELSE IF kind = "enum" THEN EnumValues ELSE StringValues

EmptyRoot(k) ==
    IF k = "string" THEN RootLeaf(ArrayString_create)
    ELSE IF k = "binary" THEN RootLeaf(ArrayBinary_create)
    ELSE RootLeaf(ArrayInteger_create)

\* the encodings in rising order: small, medium, big (a blob leaf is small or big)
LeafRank(leaf) ==
    IF leaf.context_flag THEN 2 ELSE IF leaf.has_refs /\ kind # "binary" THEN 1 ELSE 0

\* the lowest encoding among the leaves of a tree
MinRank(T) ==
    CHOOSE r \in 0..2 : /\ \E k \in 1..Len(T.leaves) : LeafRank(T.leaves[k]) = r
                        /\ \A k \in 1..Len(T.leaves) : LeafRank(T.leaves[k]) >= r

\* what the search index holds when it agrees with the column
IndexOf(c) == {<<Column_get(c, i), i>> : i \in 0..(Column_size(c) - 1)}

\* StringIndex::erase, set and update_ref find the entry of the row they
\* address; they are not defined on an index that lacks it
IndexUsable == has_index => index = IndexOf(Col)

NoOp == [op |-> "init", row |-> npos, row2 |-> npos, value |-> <<>>, num_rows |-> 0,
         thrown |-> "", log |-> <<>>,
         before |-> [inner |-> FALSE, rank |-> 0, size |-> 0]]

InitColumn ==
    /\ kind \in Kinds
    /\ nullable \in (IF kind \in {"string", "enum"} THEN BOOLEAN ELSE {FALSE})
    /\ has_index \in (IF kind = "binary" THEN {FALSE}
                      ELSE IF kind = "int" THEN BOOLEAN ELSE {TRUE})
    /\ root = EmptyRoot(kind)
    /\ keys = RootLeaf(ArrayString_create)
    /\ index = {}
    /\ model = <<>>
    /\ last = NoOp

\* the values of the key list, in key order
KeyValues(T) == [i \in 1..tree_size(T) |-> tree_get(T, i - 1)]

\* the state an operation leaves: of the column, and of the plain sequence
\* (expected) it stands for, which a throwing operation leaves alone
Finish(c, op, row, row2, value, num_rows, expected) ==
    /\ IndexUsable
    /\ root' = c.root
    /\ keys' = c.keys
    /\ index' = c.index
    /\ model' = IF Ok(c) THEN expected ELSE ColumnValues(Col)
    /\ last' = [op |-> op, row |-> row, row2 |-> row2, value |-> value,
                num_rows |-> num_rows, thrown |-> c.thrown, log |-> c.log,
                before |-> [inner |-> root.inner, rank |-> MinRank(root),
                            size |-> Column_size(Col)]]
    /\ UNCHANGED <<kind, nullable, has_index, unique>>
    /\ UNCHANGED <<subvars, specvars, lockvars, queryvars, refvars, upvars, refreshvars, boundvars, enumvars>>

Repeat(value, n) == [i \in 1..n |-> value]

\* insert(row_ndx, value, num_rows) with row_ndx <= size
Insert(row_ndx, value, num_rows) ==
    /\ row_ndx <= Column_size(Col)
    /\ Column_size(Col) + num_rows <= MaxRows
    /\ \E size \in {Column_size(Col)}, old \in {ColumnValues(Col)} :
       \E c \in {CASE kind = "string" ->
                        StringColumn_do_insert(Col, row_ndx, value, num_rows,
                                               row_ndx = size)
                   [] kind = "enum" ->
                        StringEnumColumn_do_insert(Col, row_ndx, value, num_rows,
                                                   row_ndx = size)
                   [] kind = "binary" ->
                        BinaryColumn_op(Col, "tree.insert", row_ndx, <<value>>, npos,
                            BinaryColumn_do_insert(root,
                                IF row_ndx = size THEN npos ELSE row_ndx, value, num_rows))
                   [] kind = "int" -> TColumn_insert(Col, row_ndx, value, num_rows)} :
          Finish(c, "insert", row_ndx, npos, <<value>>, num_rows,
                 SubSeq(old, 1, row_ndx) \o Repeat(value, num_rows) \o
                 SubSeq(old, row_ndx + 1, size))

\* add(value)
Add(value) ==
    /\ Column_size(Col) + 1 <= MaxRows
    /\ \E c \in {CASE kind = "string" -> StringColumn_do_insert_3(Col, npos, value, 1)
                   [] kind = "enum" -> StringEnumColumn_do_insert_3(Col, npos, value, 1)
                   [] kind = "binary" ->
                        BinaryColumn_op(Col, "tree.insert", npos, <<value>>, npos,
                            BinaryColumn_do_insert(root, npos, value, 1))
                   [] kind = "int" -> TColumn_insert(Col, npos, value, 1)} :
          Finish(c, "add", npos, npos, <<value>>, 1, Append(ColumnValues(Col), value))

\* set(ndx, value) with ndx < size
Set(ndx, value) ==
    /\ ndx < Column_size(Col)
    /\ \E c \in {CASE kind = "string" -> StringColumn_set(Col, ndx, value)
                   [] kind = "enum" -> StringEnumColumn_set(Col, ndx, value)
                   [] kind = "binary" ->
                        BinaryColumn_op(Col, "tree.set", ndx, <<value>>, npos,
                                        BinaryColumn_set(root, ndx, value))
                   [] kind = "int" -> TColumn_set(Col, ndx, value)} :
          Finish(c, "set", ndx, npos, <<value>>, 0, SetAt(ColumnValues(Col), ndx, value))

\* set_null(ndx) with ndx < size, of a string or string-enum column
SetNull(ndx) ==
    /\ kind \in {"string", "enum"}
    /\ ndx < Column_size(Col)
    /\ \E c \in {IF kind = "string" THEN StringColumn_set_null(Col, ndx)
                 ELSE StringEnumColumn_set(Col, ndx, null)} :
          Finish(c, "set_null", ndx, npos, <<null>>, 0,
                 SetAt(ColumnValues(Col), ndx, null))

\* erase(ndx, is_last) with ndx < size and is_last = (ndx = size - 1)
Erase(ndx) ==
    /\ ndx < Column_size(Col)
    /\ \E is_last \in {ndx = Column_size(Col) - 1} :
       \E c \in {CASE kind = "string" -> StringColumn_do_erase(Col, ndx, is_last)
                   [] kind = "enum" -> StringEnumColumn_do_erase(Col, ndx, is_last)
                   [] kind = "binary" ->
                        BinaryColumn_op(Col, "tree.erase", ndx, <<>>, npos,
                                        BinaryColumn_erase(root, ndx, is_last))
                   [] kind = "int" -> TColumn_erase(Col, ndx, is_last)} :
          Finish(c, "erase", ndx, npos, <<>>, 0, EraseAt(ColumnValues(Col), ndx))

\* move_last_over(row_ndx, last_row_ndx) with row_ndx <= last_row_ndx and
\* last_row_ndx + 1 = size
MoveLastOver(row_ndx) ==
    /\ row_ndx <= Column_size(Col) - 1
    /\ \E last_row_ndx \in {Column_size(Col) - 1}, old \in {ColumnValues(Col)} :
       \E c \in {CASE kind = "string" ->
                        StringColumn_do_move_last_over(Col, row_ndx, last_row_ndx)
                   [] kind = "enum" ->
                        StringEnumColumn_do_move_last_over(Col, row_ndx, last_row_ndx)
                   [] kind = "binary" ->
                        BinaryColumn_op(Col, "tree.move_last_over", row_ndx, <<>>,
                            last_row_ndx,
                            BinaryColumn_do_move_last_over(root, row_ndx, last_row_ndx))
                   [] kind = "int" ->
                        TColumn_move_last_over(Col, row_ndx, last_row_ndx)} :
          Finish(c, "move_last_over", row_ndx, last_row_ndx, <<>>, 0,
                 SubSeq(SetAt(old, row_ndx, old[last_row_ndx + 1]), 1, last_row_ndx))

\* swap_rows(row_ndx_1, row_ndx_2) of two different rows
SwapRows(row_ndx_1, row_ndx_2) ==
    /\ kind # "int"
    /\ row_ndx_1 < Column_size(Col)
    /\ row_ndx_2 < Column_size(Col)
    /\ row_ndx_1 # row_ndx_2
    /\ \E old \in {ColumnValues(Col)} :
       \E c \in {CASE kind = "string" ->
                        StringColumn_do_swap_rows(Col, row_ndx_1, row_ndx_2)
                   [] kind = "enum" ->
                        StringEnumColumn_swap_rows(Col, row_ndx_1, row_ndx_2)
                   [] kind = "binary" ->
                        BinaryColumn_op(Col, "tree.swap_rows", row_ndx_1, <<>>, row_ndx_2,
                            BinaryColumn_swap_rows(root, row_ndx_1, row_ndx_2))} :
          Finish(c, "swap_rows", row_ndx_1, row_ndx_2, <<>>, 0,
                 SetAt(SetAt(old, row_ndx_1, old[row_ndx_2 + 1]), row_ndx_2,
                       old[row_ndx_1 + 1]))

\* clear()
Clear ==
    \E c \in {CASE kind = "string" -> StringColumn_do_clear(Col)
                [] kind = "enum" -> StringEnumColumn_do_clear(Col)
                [] kind = "binary" ->
                     BinaryColumn_op(Col, "tree.clear", npos, <<>>, npos,
                                     BinaryColumn_do_clear(root))
                [] kind = "int" -> TColumn_clear(Col)} :
       Finish(c, "clear", npos, npos, <<>>, 0, <<>>)

Rows == 0..(MaxRows - 1)

Next ==
    \/ \E r \in 0..MaxRows, v \in Values, n \in 1..MaxInsert : Insert(r, v, n)
    \/ \E v \in Values : Insert(Column_size(Col), v, 0)
    \/ \E v \in Values : Add(v)
    \/ \E r \in Rows, v \in Values : Set(r, v)
    \/ \E r \in Rows : SetNull(r)
    \/ \E r \in Rows : Erase(r)
    \/ \E r \in Rows : MoveLastOver(r)
    \/ \E r1 \in Rows, r2 \in Rows : SwapRows(r1, r2)
    \/ Clear

(***************************************************************************)
(* Searches, and calls with a row index or a range outside the column.     *)
(***************************************************************************)
\* the rows a search reports, as the last step of the operation
Result(c, rows) == Step(c, "return", npos, rows, FALSE, npos)

\* an assertion fails
Rejected(c) == {Throw(c, "fatal")}

\* the call goes on with a row that is not in the column: the build reads
\* or writes outside the leaf, and crashes or goes on
Undefined(c) == {Throw(c, "crash"), Step(c, "undefined", npos, <<>>, FALSE, npos)}

\* a <= b on size_t, where npos is the largest value
ule(a, b) == b = npos \/ (a # npos /\ a <= b)

\* REALM_ASSERT_3(begin, <=, size());
\* REALM_ASSERT(end == npos || (begin <= end && end <= size()));
range_ok(size, begin, end) ==
    /\ ule(begin, size)
    /\ end = npos \/ (ule(begin, end) /\ ule(end, size))

\* Array*::find_all over [begin, end) of one leaf: the rows are appended in
\* rising order, each moved by add_offset
leaf_find_all(leaf, value, add_offset, begin, end) ==
    LET e == IF end = npos THEN leaf_size(leaf) ELSE end
        candidates == [i \in 1..(e - begin) |-> begin + i - 1]
        hits == SelectSeq(candidates, LAMBDA i : leaf_get(leaf, i) = value)
    IN  [k \in 1..Len(hits) |-> add_offset + hits[k]]

RECURSIVE find_all_from(_, _, _, _, _)
\* the leaf loop of StringColumn::find_all
find_all_from(T, value, ndx_in_tree, end, result) ==
    IF ~(ndx_in_tree < end) THEN result
    ELSE LET p == get_bptree_leaf(T, ndx_in_tree)
             leaf == T.leaves[p.leaf]
             leaf_offset == ndx_in_tree - p.ndx_in_leaf
             end_in_leaf == Min(leaf_size(leaf), end - leaf_offset)
         IN  find_all_from(T, value, leaf_offset + end_in_leaf, end,
                 result \o leaf_find_all(leaf, value, leaf_offset, p.ndx_in_leaf,
                                         end_in_leaf))

\* StringColumn::find_all without a search index
scan_find_all(T, value, begin, end) ==
    IF root_is_leaf(T) THEN leaf_find_all(T.leaves[1], value, 0, begin, end)
    ELSE find_all_from(T, value, begin,
                       IF end = npos THEN get_bptree_size(T) ELSE end, <<>>)

\* StringIndex::find_all: the rows of the value in rising order
StringIndex_find_all_rows(idx, value) ==
    LET rows == StringIndex_find_all(idx, value)
        candidates == [i \in 1..(MaxRows + 1) |-> i - 1]
    IN  SelectSeq(candidates, LAMBDA r : r \in rows)

\* a variant of StringColumn::find_first that scans from the first row
StringColumn_find_first_from_zero(c, value, begin, end) ==
    IF ~range_ok(Column_size(c), begin, end) THEN Throw(c, "fatal")
    ELSE Result(c, <<scan_find_first(c.root, value, 0, end)>>)

\* StringColumn::find_first
StringColumn_find_first(c, value, begin, end) ==
    IF ~range_ok(Column_size(c), begin, end) THEN Throw(c, "fatal")
    ELSE IF has_index /\ begin = 0 /\ end = npos
    THEN Result(c, <<StringIndex_find_first(c.index, value)>>)
    ELSE Result(c, <<scan_find_first(c.root, value, begin, end)>>)

\* StringColumn::find_all
StringColumn_find_all(c, value, begin, end) ==
    IF ~range_ok(Column_size(c), begin, end) THEN Throw(c, "fatal")
    ELSE IF has_index /\ begin = 0 /\ end = npos
    THEN Result(c, StringIndex_find_all_rows(c.index, value))
    ELSE Result(c, scan_find_all(c.root, value, begin, end))

\* TColumn::find_first, called by StringEnumColumn with a key index
TColumn_find_first(c, value, begin, end) ==
    IF ~range_ok(Column_size(c), begin, end) THEN Throw(c, "fatal")
    ELSE IF has_index /\ begin = 0 /\ end = npos
    THEN Result(c, <<StringIndex_find_first(c.index, value)>>)
    ELSE Result(c, <<scan_find_first(c.root, value, begin, end)>>)

\* TColumn::find_all
TColumn_find_all(c, value, begin, end) ==
    IF ~range_ok(Column_size(c), begin, end) THEN Throw(c, "fatal")
    ELSE IF has_index /\ begin = 0 /\ end = npos
    THEN Result(c, StringIndex_find_all_rows(c.index, value))
    ELSE Result(c, scan_find_all(c.root, value, begin, end))

\* StringEnumColumn::find_first(StringData, begin, end)
StringEnumColumn_find_first(c, value, begin, end) ==
    IF has_index /\ begin = 0 /\ end = npos
    THEN Result(c, <<StringIndex_find_first(c.index, value)>>)
    ELSE LET key_ndx == scan_find_first(c.keys, value, 0, npos)
         IN  IF key_ndx = not_found THEN Result(c, <<not_found>>)
             ELSE TColumn_find_first(c, key_ndx, begin, end)

\* StringEnumColumn::find_all(res, StringData, begin, end)
StringEnumColumn_find_all(c, value, begin, end) ==
    IF has_index /\ begin = 0 /\ end = npos
    THEN Result(c, StringIndex_find_all_rows(c.index, value))
    ELSE LET key_ndx == scan_find_first(c.keys, value, 0, npos)
         IN  IF key_ndx = not_found THEN Result(c, <<>>)
             ELSE TColumn_find_all(c, key_ndx, begin, end)

\* get(ndx) with ndx >= size: StringColumn asserts in debug builds only,
\* BinaryColumn::get_at always, TColumn::get never
get_out_of_range(c, ndx, debug) ==
    CASE kind = "string" -> IF debug THEN Rejected(c) ELSE Undefined(c)
      [] kind = "binary" -> Rejected(c)
      [] kind = "int" -> Undefined(c)

\* set(ndx, value) with ndx >= size: StringColumn and TColumn assert in
\* debug builds only, StringEnumColumn and BinaryColumn always
set_out_of_range(c, ndx, debug) ==
    CASE kind \in {"string", "int"} -> IF debug THEN Rejected(c) ELSE Undefined(c)
      [] kind \in {"enum", "binary"} -> Rejected(c)

\* do_erase(ndx, is_last) with ndx >= size of StringColumn, StringEnumColumn
\* and BinaryColumn
erase_out_of_range(c, ndx) == Rejected(c)

\* do_move_last_over(row_ndx, last_row_ndx) of StringColumn, StringEnumColumn
\* and BinaryColumn: REALM_ASSERT_3(row_ndx, <=, last_row_ndx);
\* REALM_ASSERT_3(last_row_ndx + 1, ==, size()), on size_t
move_last_over_out_of_range(c, row_ndx, last_row_ndx) ==
    IF ~ule(row_ndx, last_row_ndx) THEN Rejected(c)
    ELSE IF (IF last_row_ndx = npos THEN 0 ELSE last_row_ndx + 1) # Column_size(c)
    THEN Rejected(c)
    ELSE Undefined(c)

\* swap_rows(row_ndx_1, row_ndx_2) with a row >= size: StringColumn and
\* BinaryColumn let row = size pass and go on to get, StringEnumColumn does
\* not
swap_rows_out_of_range(c, row_ndx_1, row_ndx_2, debug) ==
    CASE kind = "enum" -> Rejected(c)
      [] kind \in {"string", "binary"} ->
            IF ~(row_ndx_1 <= Column_size(c)) \/ ~(row_ndx_2 <= Column_size(c))
            THEN Rejected(c)
            ELSE IF debug /\ row_ndx_1 = row_ndx_2 THEN Rejected(c)
            ELSE get_out_of_range(c, IF row_ndx_1 >= Column_size(c) THEN row_ndx_1
                                     ELSE row_ndx_2, debug)

\* find_first(value, begin, end)
FindFirst(value, begin, end) ==
    /\ kind \in {"string", "enum"}
    /\ \E c \in {IF kind = "string" THEN StringColumn_find_first(Col, value, begin, end)
                 ELSE StringEnumColumn_find_first(Col, value, begin, end)} :
          Finish(c, "find_first", begin, end, <<value>>, 0, ColumnValues(Col))

\* find_all(result, value, begin, end)
FindAll(value, begin, end) ==
    /\ kind \in {"string", "enum"}
    /\ \E c \in {IF kind = "string" THEN StringColumn_find_all(Col, value, begin, end)
                 ELSE StringEnumColumn_find_all(Col, value, begin, end)} :
          Finish(c, "find_all", begin, end, <<value>>, 0, ColumnValues(Col))

\* get(ndx) with ndx >= size
GetOutOfRange(ndx, debug) ==
    /\ kind # "enum"
    /\ ndx >= Column_size(Col)
    /\ \E c \in get_out_of_range(Col, ndx, debug) :
          Finish(c, "get_out_of_range", ndx, npos, <<>>, 0, ColumnValues(Col))

\* set(ndx, value) with ndx >= size
SetOutOfRange(ndx, value, debug) ==
    /\ ndx >= Column_size(Col)
    /\ \E c \in set_out_of_range(Col, ndx, debug) :
          Finish(c, "set_out_of_range", ndx, npos, <<>>, 0, ColumnValues(Col))

\* erase(ndx, is_last) with ndx >= size
EraseOutOfRange(ndx) ==
    /\ kind # "int"
    /\ ndx >= Column_size(Col)
    /\ \E c \in erase_out_of_range(Col, ndx) :
          Finish(c, "erase_out_of_range", ndx, npos, <<>>, 0, ColumnValues(Col))

\* move_last_over(row_ndx, size - 1) with row_ndx >= size; size - 1 is
\* npos when the column is empty
MoveLastOverOutOfRange(row_ndx) ==
    /\ kind # "int"
    /\ row_ndx >= Column_size(Col)
    /\ \E last_row_ndx \in {IF Column_size(Col) = 0 THEN npos ELSE Column_size(Col) - 1} :
       \E c \in move_last_over_out_of_range(Col, row_ndx, last_row_ndx) :
          Finish(c, "move_last_over_out_of_range", row_ndx, last_row_ndx, <<>>, 0,
                 ColumnValues(Col))

\* swap_rows(row_ndx_1, row_ndx_2) with a row >= size
SwapRowsOutOfRange(row_ndx_1, row_ndx_2, debug) ==
    /\ kind # "int"
    /\ row_ndx_1 >= Column_size(Col) \/ row_ndx_2 >= Column_size(Col)
    /\ \E c \in swap_rows_out_of_range(Col, row_ndx_1, row_ndx_2, debug) :
          Finish(c, "swap_rows_out_of_range", row_ndx_1, row_ndx_2, <<>>, 0,
                 ColumnValues(Col))

\* a column of any kind, with or without a search index
InitCallsColumn ==
    /\ kind \in Kinds
    /\ nullable = FALSE
    /\ has_index \in (IF kind = "binary" THEN {FALSE} ELSE BOOLEAN)
    /\ unique = FALSE
    /\ root = EmptyRoot(kind)
    /\ keys = RootLeaf(ArrayString_create)
    /\ index = {}
    /\ model = <<>>
    /\ last = NoOp

\* a string or string-enum column, with or without a search index
InitFindColumn ==
    /\ kind \in {"string", "enum"}
    /\ nullable = FALSE
    /\ has_index \in BOOLEAN
    /\ unique = FALSE
    /\ root = EmptyRoot(kind)
    /\ keys = RootLeaf(ArrayString_create)
    /\ index = {}
    /\ model = <<>>
    /\ last = NoOp

Ranges == 0..MaxRows

\* calls with rows and ranges outside the column
NextCalls ==
    \/ \E v \in Values : Add(v)
    \/ \E v \in Values, b \in Ranges, e \in Ranges \cup {npos} :
          ~range_ok(Column_size(Col), b, e) /\ FindFirst(v, b, e)
    \/ \E v \in Values, b \in Ranges, e \in Ranges \cup {npos} :
          ~range_ok(Column_size(Col), b, e) /\ FindAll(v, b, e)
    \/ \E r \in Ranges, d \in BOOLEAN : GetOutOfRange(r, d)
    \/ \E r \in Ranges, d \in BOOLEAN : \E v \in {CHOOSE x \in Values : TRUE} :
          SetOutOfRange(r, v, d)
    \/ \E r \in Ranges : EraseOutOfRange(r)
    \/ \E r \in Ranges : MoveLastOverOutOfRange(r)
    \/ \E r1 \in Ranges, r2 \in Ranges, d \in BOOLEAN : SwapRowsOutOfRange(r1, r2, d)

\* searches of any range
NextFind ==
    \/ \E v \in Values : Add(v)
    \/ \E v \in Values, b \in Ranges, e \in Ranges \cup {npos} : FindFirst(v, b, e)
    \/ \E v \in Values, b \in Ranges, e \in Ranges \cup {npos} : FindAll(v, b, e)

(***************************************************************************)
(* SubtableColumn and its accessor map.                                    *)
(***************************************************************************)
\* most rows of the sub-table column
MaxSubRows == 3
\* most Table accessors in existence at a time
MaxAccessors == 3

Refs == 1..MaxSubRows
AccessorIds == 1..MaxAccessors
NoTable == 0

\* a sub-table column in the middle of an operation
Sub == [cells |-> cells, live_refs |-> live_refs, entries |-> entries,
        accessors |-> accessors, bound |-> bound]

\* SubtableMap::find
SubtableMap_find(m_entries, subtable_ndx) ==
    LET hits == {i \in 1..Len(m_entries) : m_entries[i].m_subtable_ndx = subtable_ndx}
    IN  IF hits = {} THEN NoTable
        ELSE m_entries[CHOOSE i \in hits : \A j \in hits : i <= j].m_table

\* SubtableMap::add
SubtableMap_add(m_entries, subtable_ndx, table) ==
    Append(m_entries, [m_subtable_ndx |-> subtable_ndx, m_table |-> table])

\* "*i = *--end; pop_back()": the last entry takes the place of entry i
MoveLastOverEntry(m_entries, i) ==
    SubSeq([m_entries EXCEPT ![i] = m_entries[Len(m_entries)]], 1, Len(m_entries) - 1)

\* a variant of SubtableMap::remove that reports an empty map also when it
\* found nothing to remove
SubtableMap_remove_reports_empty(m_entries, subtable) ==
    LET hits == {i \in 1..Len(m_entries) : m_entries[i].m_table = subtable}
        left == IF hits = {} THEN m_entries
                ELSE MoveLastOverEntry(m_entries, CHOOSE i \in hits : \A j \in hits : i <= j)
    IN  [entries |-> left, last_entry_removed |-> left = <<>>]

\* SubtableMap::remove
SubtableMap_remove(m_entries, subtable) ==
    LET hits == {i \in 1..Len(m_entries) : m_entries[i].m_table = subtable}
        left == MoveLastOverEntry(m_entries, CHOOSE i \in hits : \A j \in hits : i <= j)
    IN  IF hits = {} THEN [entries |-> m_entries, last_entry_removed |-> FALSE]
        ELSE [entries |-> left, last_entry_removed |-> left = <<>>]

\* TableFriend::detach
detach(accs, table) == [accs EXCEPT ![table].state = "detached"]

\* SubtableMap::detach_and_remove_all: every entry's accessor is detached,
\* the map is cleared
SubtableMap_detach_and_remove_all(m) ==
    LET was_empty == m.entries = <<>>
    IN  [m |-> [m EXCEPT !.accessors =
                        [a \in DOMAIN @ |->
                            IF \E i \in 1..Len(m.entries) : m.entries[i].m_table = a
                            THEN detach(@, a)[a] ELSE @[a]],
                         !.entries = <<>>],
         last_entry_removed |-> ~was_empty]

\* SubtableMap::detach_and_remove
SubtableMap_detach_and_remove(m, subtable_ndx) ==
    LET hits == {i \in 1..Len(m.entries) : m.entries[i].m_subtable_ndx = subtable_ndx}
        i == CHOOSE h \in hits : \A j \in hits : h <= j
        left == MoveLastOverEntry(m.entries, i)
    IN  IF hits = {} THEN [m |-> m, last_entry_removed |-> FALSE]
        ELSE [m |-> [m EXCEPT !.accessors = detach(@, m.entries[i].m_table),
                              !.entries = left],
              last_entry_removed |-> left = <<>>]

\* TableFriend::set_ndx_in_parent
set_ndx_in_parent(accs, table, ndx) == [accs EXCEPT ![table].ndx_in_parent = ndx]

RECURSIVE adj_move_over_from(_, _, _, _)
\* the loop of SubtableMap::adj_move_over<true> from entry i on: the entry
\* of to_row_ndx is detached and removed, the entry of from_row_ndx now is
\* the entry of to_row_ndx
adj_move_over_from(m, from_row_ndx, to_row_ndx, i) ==
    IF i > Len(m.entries) THEN m
    ELSE LET e == m.entries[i]
         IN  IF e.m_subtable_ndx = to_row_ndx
             THEN adj_move_over_from(
                      [m EXCEPT !.accessors = detach(@, e.m_table),
                                !.entries = MoveLastOverEntry(@, i)],
                      from_row_ndx, to_row_ndx, i)
             ELSE IF e.m_subtable_ndx = from_row_ndx
             THEN adj_move_over_from(
                      [m EXCEPT !.entries[i].m_subtable_ndx = to_row_ndx,
                                !.accessors = set_ndx_in_parent(@, e.m_table, to_row_ndx)],
                      from_row_ndx, to_row_ndx, i + 1)
             ELSE adj_move_over_from(m, from_row_ndx, to_row_ndx, i + 1)

\* SubtableMap::adj_move_over<true>; the table is unbound when the last
\* entry goes
adj_move_over(m, from_row_ndx, to_row_ndx) ==
    LET m1 == adj_move_over_from(m, from_row_ndx, to_row_ndx, 1)
    IN  IF Len(m.entries) = 0 THEN m
        ELSE IF m1.entries = <<>> THEN [m1 EXCEPT !.bound = @ - 1]
        ELSE m1

\* SubtableColumn::destroy_subtable
destroy_subtable(m, ndx) ==
    LET ref == At(m.cells, ndx)
    IN  IF ref # 0 THEN [m EXCEPT !.live_refs = @ \ {ref}] ELSE m

\* SubtableColumnBase::move_last_row_over: the move in the tree, then the
\* accessor map
SubtableColumnBase_move_last_row_over(m, row_ndx, prior_num_rows) ==
    LET last_row_ndx == prior_num_rows - 1
        moved == [m EXCEPT !.cells =
                     SubSeq(SetAt(@, row_ndx, At(@, last_row_ndx)), 1, last_row_ndx)]
    IN  adj_move_over(moved, last_row_ndx, row_ndx)

\* a variant of SubtableColumn::move_last_row_over that leaves the nested
\* table of the row alone
SubtableColumn_move_last_row_over_no_destroy(m, row_ndx, prior_num_rows) ==
    SubtableColumnBase_move_last_row_over(m, row_ndx, prior_num_rows)

\* SubtableColumn::move_last_row_over
SubtableColumn_move_last_row_over(m, row_ndx, prior_num_rows) ==
    SubtableColumnBase_move_last_row_over(destroy_subtable(m, row_ndx), row_ndx,
                                          prior_num_rows)

\* TableFriend::create_accessor: a new attached accessor
create_accessor(accs, table, subtable_ndx) ==
    [accs EXCEPT ![table] = [state |-> "attached", ndx_in_parent |-> subtable_ndx]]

\* a variant of SubtableColumn::get_subtable_tableref that does not look
\* for a cached accessor
SubtableColumn_get_subtable_tableref_no_find(m, subtable_ndx, fresh) ==
    [m |-> [m EXCEPT !.accessors = create_accessor(@, fresh, subtable_ndx),
                     !.entries = SubtableMap_add(@, subtable_ndx, fresh),
                     !.bound = IF m.entries = <<>> THEN @ + 1 ELSE @],
     result |-> fresh]

\* SubtableColumn::get_subtable_tableref; `fresh` is the identity a new
\* accessor gets
SubtableColumn_get_subtable_tableref(m, subtable_ndx, fresh) ==
    LET subtable == SubtableMap_find(m.entries, subtable_ndx)
        was_empty == m.entries = <<>>
    IN  IF subtable # NoTable THEN [m |-> m, result |-> subtable]
        ELSE [m |-> [m EXCEPT !.accessors = create_accessor(@, fresh, subtable_ndx),
                              !.entries = SubtableMap_add(@, subtable_ndx, fresh),
                              !.bound = IF was_empty THEN @ + 1 ELSE @],
              result |-> fresh]

\* a variant of SubtableColumnBase::child_accessor_destroyed that keeps
\* the reference on the parent table
child_accessor_destroyed_no_unbind(m, child) ==
    [m EXCEPT !.entries = SubtableMap_remove(@, child).entries]

\* SubtableColumnBase::child_accessor_destroyed
child_accessor_destroyed(m, child) ==
    LET r == SubtableMap_remove(m.entries, child)
    IN  [m EXCEPT !.entries = r.entries,
                  !.bound = IF r.last_entry_removed THEN @ - 1 ELSE @]

\* SubtableColumn::get_subtable_tableref when m_subtable_map.add throws: the
\* accessor was created and is not in the map, the exception destroys it,
\* and its destructor calls child_accessor_destroyed
SubtableColumn_get_subtable_tableref_add_throws(m, subtable_ndx, fresh) ==
    LET created == [m EXCEPT !.accessors = create_accessor(@, fresh, subtable_ndx)]
        destroyed == child_accessor_destroyed(created, fresh)
    IN  [destroyed EXCEPT !.accessors[fresh] = [state |-> "free", ndx_in_parent |-> npos]]

\* SubtableColumnBase::discard_subtable_accessor: the accessor of the row
\* is detached and forgotten, the table is unbound when the last entry goes
discard_subtable_accessor(m, row_ndx) ==
    LET r == SubtableMap_detach_and_remove(m, row_ndx)
    IN  [r.m EXCEPT !.bound = IF r.last_entry_removed THEN @ - 1 ELSE @]

\* SubtableColumnBase::discard_child_accessors
discard_child_accessors(m) ==
    LET r == SubtableMap_detach_and_remove_all(m)
    IN  [r.m EXCEPT !.bound = IF r.last_entry_removed THEN @ - 1 ELSE @]

\* SubtableColumn::add: the new row's nested table is empty (ref 0) or a
\* clone with a ref of its own
SubtableColumn_add(m, columns_ref) ==
    [m EXCEPT !.cells = Append(@, columns_ref),
              !.live_refs = IF columns_ref # 0 THEN @ \cup {columns_ref} ELSE @]

NoSubOp == [op |-> "init", row |-> npos, last_row |-> npos, at_row |-> NoTable,
            at_last |-> NoTable, old_ref |-> 0, result |-> NoTable]

InitSub ==
    /\ cells = <<>>
    /\ live_refs = {}
    /\ entries = <<>>
    /\ accessors = [a \in AccessorIds |-> [state |-> "free", ndx_in_parent |-> npos]]
    /\ bound = 0
    /\ slast = NoSubOp

FinishSub(m, op, row, result) ==
    /\ cells' = m.cells
    /\ live_refs' = m.live_refs
    /\ entries' = m.entries
    /\ accessors' = m.accessors
    /\ bound' = m.bound
    /\ slast' = [op |-> op, row |-> row, last_row |-> Len(cells) - 1,
                 at_row |-> IF row = npos THEN NoTable ELSE SubtableMap_find(entries, row),
                 at_last |-> SubtableMap_find(entries, Len(cells) - 1),
                 old_ref |-> IF row = npos THEN 0 ELSE At(cells, row),
                 result |-> result]
    /\ UNCHANGED <<colvars, specvars, lockvars, queryvars, refvars, upvars, refreshvars, boundvars, enumvars>>

\* add(subtable), of an empty table or of one with rows
SubAdd(with_rows) ==
    LET columns_ref == IF with_rows THEN CHOOSE r \in Refs : r \notin live_refs ELSE 0
    IN  /\ Len(cells) < MaxSubRows
        /\ with_rows => Refs \ live_refs # {}
        /\ FinishSub(SubtableColumn_add(Sub, columns_ref), "add", npos, NoTable)

\* get_subtable_tableref(subtable_ndx) with subtable_ndx < size
GetSubtableTableref(subtable_ndx) ==
    LET free == {a \in AccessorIds : accessors[a].state = "free"}
        fresh == CHOOSE a \in free : \A b \in free : a <= b
        r == SubtableColumn_get_subtable_tableref(Sub, subtable_ndx, fresh)
    IN  /\ subtable_ndx < Len(cells)
        /\ SubtableMap_find(entries, subtable_ndx) = NoTable => free # {}
        /\ FinishSub(r.m, "get_subtable_tableref", subtable_ndx, r.result)

\* get_subtable_tableref(subtable_ndx) of a row without a cached accessor,
\* ended by an exception of the map insertion
GetSubtableTablerefAddThrows(subtable_ndx) ==
    LET free == {a \in AccessorIds : accessors[a].state = "free"}
        fresh == CHOOSE a \in free : \A b \in free : a <= b
    IN  /\ subtable_ndx < Len(cells)
        /\ SubtableMap_find(entries, subtable_ndx) = NoTable
        /\ free # {}
        /\ FinishSub(SubtableColumn_get_subtable_tableref_add_throws(Sub, subtable_ndx, fresh),
                     "get_subtable_tableref_add_throws", subtable_ndx, fresh)

\* move_last_row_over(row_ndx, prior_num_rows) with row_ndx < prior_num_rows
\* and prior_num_rows = size
MoveLastRowOver(row_ndx) ==
    /\ row_ndx < Len(cells)
    /\ FinishSub(SubtableColumn_move_last_row_over(Sub, row_ndx, Len(cells)),
                 "move_last_row_over", row_ndx, NoTable)

\* the last reference to an accessor goes away: an attached accessor tells
\* its column, a detached one does not
ReleaseAccessor(table) ==
    LET m == IF accessors[table].state = "attached"
             THEN child_accessor_destroyed(Sub, table)
             ELSE Sub
    IN  /\ accessors[table].state # "free"
        /\ FinishSub([m EXCEPT !.accessors[table] =
                         [state |-> "free", ndx_in_parent |-> npos]],
                     "release", npos, table)

\* discard_subtable_accessor(row_ndx)
DiscardSubtableAccessor(row_ndx) ==
    /\ row_ndx < Len(cells)
    /\ FinishSub(discard_subtable_accessor(Sub, row_ndx), "discard_subtable_accessor",
                 row_ndx, NoTable)

\* discard_child_accessors()
DiscardChildAccessors ==
    FinishSub(discard_child_accessors(Sub), "discard_child_accessors", npos, NoTable)

NextSub ==
    \/ \E r \in 0..(MaxSubRows - 1) : DiscardSubtableAccessor(r)
    \/ DiscardChildAccessors
    \/ \E b \in BOOLEAN : SubAdd(b)
    \/ \E r \in 0..(MaxSubRows - 1) : GetSubtableTableref(r)
    \/ \E r \in 0..(MaxSubRows - 1) : GetSubtableTablerefAddThrows(r)
    \/ \E r \in 0..(MaxSubRows - 1) : MoveLastRowOver(r)
    \/ \E a \in AccessorIds : ReleaseAccessor(a)

\* most rows erased by one erase_rows
MaxEraseRows == 2

(***************************************************************************)
(* The operations of SubtableColumn that write cells, and their exceptions.*)
(* `fails` is the statement that throws: "clone" (clone_table_columns),    *)
(* "tree" (the write to the column's tree) or "none".                      *)
(***************************************************************************)
\* clone_table_columns: the ref of the copy
clone_table_columns(m) == CHOOSE r \in Refs : r \notin m.live_refs

\* SubtableMap::adj_insert_rows: the entries of the rows from row_ndx on
\* move up
adj_insert_rows(m, row_ndx, num_rows_inserted) ==
    [m EXCEPT !.entries =
                 [i \in 1..Len(@) |->
                     IF @[i].m_subtable_ndx >= row_ndx
                     THEN [@[i] EXCEPT !.m_subtable_ndx = @ + num_rows_inserted]
                     ELSE @[i]],
              !.accessors =
                 [a \in DOMAIN @ |->
                     IF @[a].state = "attached" /\ @[a].ndx_in_parent >= row_ndx
                     THEN [@[a] EXCEPT !.ndx_in_parent = @ + num_rows_inserted]
                     ELSE @[a]]]

RECURSIVE adj_erase_rows_from(_, _, _, _)
\* the loop of SubtableMap::adj_erase_rows from entry i on: the entries of
\* the erased rows are detached and removed, those of later rows move down
adj_erase_rows_from(m, row_ndx, num_rows_erased, i) ==
    IF i > Len(m.entries) THEN m
    ELSE LET e == m.entries[i]
         IN  IF e.m_subtable_ndx >= row_ndx + num_rows_erased
             THEN adj_erase_rows_from(
                      [m EXCEPT !.entries[i].m_subtable_ndx = @ - num_rows_erased,
                                !.accessors = set_ndx_in_parent(@, e.m_table,
                                                  e.m_subtable_ndx - num_rows_erased)],
                      row_ndx, num_rows_erased, i + 1)
             ELSE IF e.m_subtable_ndx >= row_ndx
             THEN adj_erase_rows_from(
                      [m EXCEPT !.accessors = detach(@, e.m_table),
                                !.entries = MoveLastOverEntry(@, i)],
                      row_ndx, num_rows_erased, i)
             ELSE adj_erase_rows_from(m, row_ndx, num_rows_erased, i + 1)

\* SubtableColumnBase::erase_rows: the rows leave the tree, then the map is
\* adjusted and the table is unbound when the last entry goes
SubtableColumnBase_erase_rows(m, row_ndx, num_rows_to_erase) ==
    LET erased == [m EXCEPT !.cells = SubSeq(@, 1, row_ndx) \o
                                      SubSeq(@, row_ndx + num_rows_to_erase + 1, Len(@))]
        m1 == adj_erase_rows_from(erased, row_ndx, num_rows_to_erase, 1)
    IN  IF m.entries # <<>> /\ m1.entries = <<>> THEN [m1 EXCEPT !.bound = @ - 1]
        ELSE m1

RECURSIVE destroy_subtables(_, _, _)
\* the loop of SubtableColumn::erase_rows over destroy_subtable
destroy_subtables(m, row_ndx, num_rows_to_erase) ==
    IF num_rows_to_erase = 0 THEN m
    ELSE destroy_subtables(destroy_subtable(m, row_ndx), row_ndx + 1, num_rows_to_erase - 1)

\* SubtableColumn::erase_rows
SubtableColumn_erase_rows(m, row_ndx, num_rows_to_erase, fails) ==
    LET destroyed == destroy_subtables(m, row_ndx, num_rows_to_erase)
    IN  IF fails = "tree" THEN destroyed
        ELSE SubtableColumnBase_erase_rows(destroyed, row_ndx, num_rows_to_erase)

\* SubtableColumn::set: the nested table of the row is destroyed, then the
\* new one is cloned and written; a cached accessor is refreshed
SubtableColumn_set(m, row_ndx, with_rows, fails) ==
    LET destroyed == destroy_subtable(m, row_ndx)
        columns_ref == IF with_rows THEN clone_table_columns(destroyed) ELSE 0
        cloned == IF with_rows THEN [destroyed EXCEPT !.live_refs = @ \cup {columns_ref}]
                  ELSE destroyed
    IN  IF fails = "clone" THEN destroyed
        ELSE IF fails = "tree" THEN cloned
        ELSE [cloned EXCEPT !.cells = SetAt(@, row_ndx, columns_ref)]

\* SubtableColumn::set_null
SubtableColumn_set_null(m, row_ndx, fails) ==
    LET destroyed == destroy_subtable(m, row_ndx)
    IN  IF fails = "tree" THEN destroyed
        ELSE [destroyed EXCEPT !.cells = SetAt(@, row_ndx, 0)]

\* SubtableColumn::insert
SubtableColumn_insert(m, row_ndx, with_rows, fails) ==
    LET columns_ref == IF with_rows THEN clone_table_columns(m) ELSE 0
        cloned == IF with_rows THEN [m EXCEPT !.live_refs = @ \cup {columns_ref}] ELSE m
    IN  IF fails = "clone" THEN m
        ELSE IF fails = "tree" THEN cloned
        ELSE adj_insert_rows([cloned EXCEPT !.cells = InsertAt(@, row_ndx, columns_ref)],
                             row_ndx, 1)

\* SubtableColumn::add when clone_table_columns or do_insert throws
SubtableColumn_add_throws(m, with_rows, fails) ==
    IF with_rows /\ fails = "tree"
    THEN [m EXCEPT !.live_refs = @ \cup {clone_table_columns(m)}]
    ELSE m

\* SubtableColumn::move_last_row_over when SubtableColumnBase::
\* move_last_row_over throws
SubtableColumn_move_last_row_over_throws(m, row_ndx) == destroy_subtable(m, row_ndx)

Failures(with_rows) == IF with_rows THEN {"none", "clone", "tree"} ELSE {"none", "tree"}

\* set(row_ndx, subtable) with row_ndx < size
SubSet(row_ndx, with_rows, fails) ==
    /\ row_ndx < Len(cells)
    /\ with_rows => Refs \ destroy_subtable(Sub, row_ndx).live_refs # {}
    /\ FinishSub(SubtableColumn_set(Sub, row_ndx, with_rows, fails),
                 IF fails = "none" THEN "set" ELSE "set_throws", row_ndx, NoTable)

\* set_null(row_ndx) with row_ndx < size
SubSetNull(row_ndx, fails) ==
    /\ row_ndx < Len(cells)
    /\ FinishSub(SubtableColumn_set_null(Sub, row_ndx, fails),
                 IF fails = "none" THEN "set_null" ELSE "set_null_throws", row_ndx, NoTable)

\* insert(row_ndx, subtable) with row_ndx <= size
SubInsert(row_ndx, with_rows, fails) ==
    /\ row_ndx <= Len(cells)
    /\ Len(cells) < MaxSubRows
    /\ with_rows => Refs \ live_refs # {}
    /\ FinishSub(SubtableColumn_insert(Sub, row_ndx, with_rows, fails),
                 IF fails = "none" THEN "insert" ELSE "insert_throws", npos, NoTable)

\* erase_rows(row_ndx, num_rows_to_erase, prior_num_rows) with
\* prior_num_rows = size and row_ndx <= prior_num_rows - num_rows_to_erase
SubEraseRows(row_ndx, num_rows_to_erase, fails) ==
    /\ num_rows_to_erase <= Len(cells)
    /\ row_ndx <= Len(cells) - num_rows_to_erase
    /\ FinishSub(SubtableColumn_erase_rows(Sub, row_ndx, num_rows_to_erase, fails),
                 IF fails = "none" THEN "erase_rows" ELSE "erase_rows_throws", npos, NoTable)

\* add(subtable) ended by an exception
SubAddThrows(with_rows, fails) ==
    /\ Len(cells) < MaxSubRows
    /\ with_rows => Refs \ live_refs # {}
    /\ FinishSub(SubtableColumn_add_throws(Sub, with_rows, fails), "add_throws", npos,
                 NoTable)

\* move_last_row_over(row_ndx, prior_num_rows) ended by an exception
MoveLastRowOverThrows(row_ndx) ==
    /\ row_ndx < Len(cells)
    /\ FinishSub(SubtableColumn_move_last_row_over_throws(Sub, row_ndx),
                 "move_last_row_over_throws", row_ndx, NoTable)

NextSubFaults ==
    \/ \E b \in BOOLEAN : SubAdd(b)
    \/ \E r \in 0..(MaxSubRows - 1) : MoveLastRowOver(r)
    \/ \E r \in 0..(MaxSubRows - 1), b \in BOOLEAN : \E f \in Failures(b) : SubSet(r, b, f)
    \/ \E r \in 0..(MaxSubRows - 1), f \in {"none", "tree"} : SubSetNull(r, f)
    \/ \E r \in 0..MaxSubRows, b \in BOOLEAN : \E f \in Failures(b) : SubInsert(r, b, f)
    \/ \E r \in 0..MaxSubRows, n \in 1..MaxEraseRows, f \in {"none", "tree"} :
          SubEraseRows(r, n, f)
    \/ \E b \in BOOLEAN : \E f \in Failures(b) \ {"none"} : SubAddThrows(b, f)
    \/ \E r \in 0..(MaxSubRows - 1) : MoveLastRowOverThrows(r)

(***************************************************************************)
(* Spec: the column types, names and attributes of a table, and the        *)
(* subspecs array of nested specs and tagged indices.                      *)
(***************************************************************************)
\* most columns of a Spec
MaxColumns == 4
\* greatest table or column index a setter is given
MaxTableNdx == 1

ColumnTypes == {"Int", "String", "StringEnum", "Table", "Link", "LinkList", "BackLink"}

\* an entry of the subspecs array: the ref of a nested spec (spec is <<the
\* nested Spec>>), or an integer
RefEntry(nested) == [is_ref |-> TRUE, spec |-> <<nested>>, val |-> 0]
IntEntry(v) == [is_ref |-> FALSE, spec |-> <<>>, val |-> v]

\* an entry of m_subspec_ptrs; m_spec is <<>> or <<the cached accessor>>
SubspecPtr(is_spec_ptr) == [m_is_spec_ptr |-> is_spec_ptr, m_spec |-> <<>>]

\* Spec::create_empty_spec
create_empty_spec ==
    [types |-> <<>>, names |-> <<>>, attr |-> <<>>, subspecs |-> <<>>,
     subspec_ptrs |-> <<>>, enumkeys |-> <<>>, top |-> <<1, 1, 1>>,
     subspecs_attached |-> FALSE, enumkeys_attached |-> FALSE]

\* the Spec of the state
TheSpec ==
    [types |-> m_types, names |-> m_names, attr |-> m_attr, subspecs |-> m_subspecs,
     subspec_ptrs |-> m_subspec_ptrs, enumkeys |-> m_enumkeys, top |-> m_top,
     subspecs_attached |-> m_subspecs_attached,
     enumkeys_attached |-> m_enumkeys_attached]

\* the outcome of a call that a failed REALM_ASSERT ends
Fatal == [fatal |-> TRUE, value |-> 0 - 1]
Returns(v) == [fatal |-> FALSE, value |-> v]

get_column_count(s) == Len(s.types)

\* Spec::get_subspec_entries_for_col_type
get_subspec_entries_for_col_type(type) ==
    IF type \in {"Table", "Link", "LinkList"} THEN 1
    ELSE IF type = "BackLink" THEN 2
    ELSE 0

RECURSIVE get_subspec_ndx_after_loop(_, _, _, _)
\* the loop of Spec::get_subspec_ndx_after from column i on
get_subspec_ndx_after_loop(s, i, column_ndx, skip_column_ndx) ==
    IF i = column_ndx THEN 0
    ELSE (IF i = skip_column_ndx THEN 0
          ELSE get_subspec_entries_for_col_type(At(s.types, i)))
         + get_subspec_ndx_after_loop(s, i + 1, column_ndx, skip_column_ndx)

\* Spec::get_subspec_ndx_after
get_subspec_ndx_after(s, column_ndx, skip_column_ndx) ==
    get_subspec_ndx_after_loop(s, 0, column_ndx, skip_column_ndx)

\* a variant of Spec::get_subspec_ndx without the assertion on the column
get_subspec_ndx_unchecked(s, column_ndx) ==
    Returns(get_subspec_ndx_after(s, column_ndx, column_ndx))

\* Spec::get_subspec_ndx
get_subspec_ndx(s, column_ndx) ==
    IF \/ column_ndx = get_column_count(s)
       \/ At(s.types, column_ndx) \in {"Table", "Link", "LinkList", "BackLink"}
    THEN Returns(get_subspec_ndx_after(s, column_ndx, column_ndx))
    ELSE Fatal

\* Spec::get_enumkeys_ndx
get_enumkeys_ndx(s, column_ndx) ==
    Cardinality({i \in 0..(column_ndx - 1) : At(s.types, i) = "StringEnum"})

\* a variant of Spec::adj_subspec_ptrs that leaves the accessors as they are
adj_subspec_ptrs_none(s) == s

\* Spec::adj_subspec_ptrs
adj_subspec_ptrs(s) ==
    [s EXCEPT !.subspec_ptrs =
        [i \in 1..Len(@) |->
            IF i <= Len(s.subspecs) /\ @[i].m_spec # <<>>
            THEN [@[i] EXCEPT !.m_spec = <<[ndx_in_parent |-> i - 1]>>]
            ELSE @[i]]]

\* a variant of Spec::insert_column that finds no subspec entries to insert
insert_column_no_subspecs(s, column_ndx, type, name, attr) ==
    [s EXCEPT !.names = IF type # "BackLink" THEN InsertAt(@, column_ndx, name) ELSE @,
              !.types = InsertAt(@, column_ndx, type),
              !.attr = InsertAt(@, column_ndx, attr)]

\* Spec::has_subspec: the top array has a slot for the subspecs, and a ref
\* in it
has_subspec(s) == Len(s.top) > 3 /\ s.top[4] # 0

\* a variant of create_subspecs that always adds a slot to the top array
create_subspecs_add(s) ==
    IF s.subspecs_attached THEN s
    ELSE [s EXCEPT !.top = Append(@, 1), !.subspecs_attached = TRUE]

\* Spec::insert_column, the subspecs array made when the first column with
\* subspec entries arrives: its ref goes to a new slot 3 of the top array
\* or to the slot 3 that upgrade_string_to_enum left null
create_subspecs(s) ==
    IF s.subspecs_attached THEN s
    ELSE [s EXCEPT !.top = IF Len(@) = 3 THEN Append(@, 1) ELSE SetAt(@, 3, 1),
                   !.subspecs_attached = TRUE]

\* Spec::insert_column
insert_column(s, column_ndx, type, name, attr) ==
    LET s0 == IF type \in {"Table", "Link", "LinkList", "BackLink"}
              THEN create_subspecs(s) ELSE s
        s1 == [s0 EXCEPT
                  !.names = IF type # "BackLink" THEN InsertAt(@, column_ndx, name) ELSE @,
                  !.types = InsertAt(@, column_ndx, type),
                  !.attr = InsertAt(@, column_ndx, attr)]
        subspec_ndx == get_subspec_ndx(s1, column_ndx).value
    IN  IF type = "Table"
        THEN adj_subspec_ptrs(
                 [s1 EXCEPT
                     !.subspecs = InsertAt(@, subspec_ndx, RefEntry(create_empty_spec)),
                     !.subspec_ptrs = InsertAt(@, subspec_ndx, SubspecPtr(TRUE))])
        ELSE IF type \in {"Link", "LinkList"}
        THEN adj_subspec_ptrs(
                 [s1 EXCEPT
                     !.subspecs = InsertAt(@, subspec_ndx, IntEntry(0)),
                     !.subspec_ptrs = InsertAt(@, subspec_ndx, SubspecPtr(FALSE))])
        ELSE IF type = "BackLink"
        THEN adj_subspec_ptrs(
                 [s1 EXCEPT
                     !.subspecs = InsertAt(InsertAt(@, subspec_ndx, IntEntry(0)),
                                           subspec_ndx, IntEntry(1)),
                     !.subspec_ptrs = InsertAt(InsertAt(@, subspec_ndx, SubspecPtr(FALSE)),
                                               subspec_ndx, SubspecPtr(FALSE))])
        ELSE s1

\* Spec::erase_column
erase_column(s, column_ndx) ==
    LET type == At(s.types, column_ndx)
        subspec_ndx == get_subspec_ndx(s, column_ndx).value
        s1 == IF type \in {"Table", "Link", "LinkList"}
              THEN adj_subspec_ptrs(
                       [s EXCEPT !.subspecs = EraseAt(@, subspec_ndx),
                                 !.subspec_ptrs = EraseAt(@, subspec_ndx)])
              ELSE IF type = "BackLink"
              THEN adj_subspec_ptrs(
                       [s EXCEPT
                           !.subspecs = EraseAt(EraseAt(@, subspec_ndx), subspec_ndx),
                           !.subspec_ptrs = EraseAt(EraseAt(@, subspec_ndx), subspec_ndx)])
              ELSE IF type = "StringEnum"
              THEN [s EXCEPT !.enumkeys = EraseAt(@, get_enumkeys_ndx(s, column_ndx))]
              ELSE s
    IN  [s1 EXCEPT !.names = IF type # "BackLink" THEN EraseAt(@, column_ndx) ELSE @,
                   !.types = EraseAt(@, column_ndx),
                   !.attr = EraseAt(@, column_ndx)]

\* Spec::upgrade_string_to_enum, the enumkeys array made at the first
\* upgrade: a null slot 3 is added when there are no subspecs, then the ref
\* of the array goes to slot 4
create_enumkeys(s) ==
    IF s.enumkeys_attached THEN s
    ELSE LET top_1 == IF Len(s.top) = 3 THEN Append(s.top, 0) ELSE s.top
         IN  [s EXCEPT !.top = IF Len(top_1) = 4 THEN Append(top_1, 1)
                               ELSE SetAt(top_1, 4, 1),
                       !.enumkeys_attached = TRUE]

\* Spec::upgrade_string_to_enum
upgrade_string_to_enum(s, column_ndx, keys_ref) ==
    [create_enumkeys(s) EXCEPT
        !.enumkeys = InsertAt(@, get_enumkeys_ndx(s, column_ndx), keys_ref),
        !.types = SetAt(@, column_ndx, "StringEnum")]

\* the ref of a key list that has just been allocated: the first that no
\* entry of enumkeys holds
new_keys_ref(s) ==
    CHOOSE k \in 1..(Len(s.enumkeys) + 1) :
        /\ \A j \in 1..Len(s.enumkeys) : s.enumkeys[j] # k
        /\ \A i \in 1..(k - 1) : \E j \in 1..Len(s.enumkeys) : s.enumkeys[j] = i

\* Spec::get_subspec_by_ndx: the accessor of the nested spec, made and
\* cached at the first call
get_subspec_by_ndx(s, subspec_ndx) ==
    IF At(s.subspec_ptrs, subspec_ndx).m_spec = <<>>
    THEN [s EXCEPT !.subspec_ptrs[subspec_ndx + 1].m_spec =
                      <<[ndx_in_parent |-> subspec_ndx]>>]
    ELSE s

\* Spec::set_opposite_link_table_ndx: the table index is stored tagged
set_opposite_link_table_ndx(s, column_ndx, table_ndx) ==
    LET tagged_ndx == (table_ndx * 2) + 1
        subspec_ndx == get_subspec_ndx(s, column_ndx).value
    IN  [s EXCEPT !.subspecs = SetAt(@, subspec_ndx, IntEntry(tagged_ndx))]

\* Spec::get_opposite_link_table_ndx
get_opposite_link_table_ndx(s, column_ndx) ==
    IF ~(column_ndx < get_column_count(s)) THEN Fatal
    ELSE IF At(s.types, column_ndx) \notin {"Link", "LinkList", "BackLink"} THEN Fatal
    ELSE LET subspec_ndx == get_subspec_ndx(s, column_ndx).value
             tagged_value == At(s.subspecs, subspec_ndx).val
         IN  IF tagged_value = 0 THEN Fatal
             ELSE Returns(tagged_value \div 2)

\* a variant of Spec::set_backlink_origin_column that writes the first of the
\* two entries of the column
set_backlink_origin_column_first(s, backlink_col_ndx, origin_col_ndx) ==
    set_opposite_link_table_ndx(s, backlink_col_ndx, origin_col_ndx)

\* Spec::set_backlink_origin_column
set_backlink_origin_column(s, backlink_col_ndx, origin_col_ndx) ==
    LET tagged_ndx == (origin_col_ndx * 2) + 1
        subspec_ndx == get_subspec_ndx(s, backlink_col_ndx).value
    IN  [s EXCEPT !.subspecs = SetAt(@, subspec_ndx + 1, IntEntry(tagged_ndx))]

\* Spec::get_origin_column_ndx
get_origin_column_ndx(s, backlink_col_ndx) ==
    IF ~(backlink_col_ndx < get_column_count(s)) THEN Fatal
    ELSE IF At(s.types, backlink_col_ndx) # "BackLink" THEN Fatal
    ELSE LET subspec_ndx == get_subspec_ndx(s, backlink_col_ndx).value
             tagged_value == At(s.subspecs, subspec_ndx + 1).val
         IN  IF tagged_value = 0 THEN Fatal
             ELSE Returns(tagged_value \div 2)

NoLinks == [table |-> 0 - 1, origin |-> 0 - 1, keys |-> 0]

InitSpec ==
    /\ m_types = <<>>
    /\ m_names = <<>>
    /\ m_attr = <<>>
    /\ m_subspecs = <<>>
    /\ m_subspec_ptrs = <<>>
    /\ m_enumkeys = <<>>
    /\ m_top = <<1, 1, 1>>
    /\ m_subspecs_attached = FALSE
    /\ m_enumkeys_attached = FALSE
    /\ links = <<>>
    /\ rhs = create_empty_spec
    /\ equal = "none"

FinishSpec(s, new_links) ==
    /\ m_types' = s.types
    /\ m_names' = s.names
    /\ m_attr' = s.attr
    /\ m_subspecs' = s.subspecs
    /\ m_subspec_ptrs' = s.subspec_ptrs
    /\ m_enumkeys' = s.enumkeys
    /\ m_top' = s.top
    /\ m_subspecs_attached' = s.subspecs_attached
    /\ m_enumkeys_attached' = s.enumkeys_attached
    /\ links' = new_links
    /\ UNCHANGED <<rhs, equal>>
    /\ UNCHANGED <<colvars, subvars, lockvars, queryvars, refvars, upvars, refreshvars, boundvars, enumvars>>

\* insert_column(column_ndx, type, name, attr) with column_ndx <= column
\* count; a table keeps its backlink columns after all its other columns
InsertColumn(column_ndx, type) ==
    /\ Len(m_types) < MaxColumns
    /\ column_ndx <= Len(m_types)
    /\ IF type = "BackLink" THEN column_ndx >= Len(m_names)
       ELSE column_ndx <= Len(m_names)
    /\ \E s \in {insert_column(TheSpec, column_ndx, type, "name", 0)} :
          FinishSpec(s, InsertAt(links, column_ndx, NoLinks))

\* erase_column(column_ndx) with column_ndx < column count
EraseColumn(column_ndx) ==
    /\ column_ndx < Len(m_types)
    /\ \E s \in {erase_column(TheSpec, column_ndx)} :
          FinishSpec(s, EraseAt(links, column_ndx))

\* upgrade_string_to_enum(column_ndx, keys_ref) of a String column
UpgradeStringToEnum(column_ndx) ==
    /\ column_ndx < Len(m_types)
    /\ At(m_types, column_ndx) = "String"
    /\ \E keys_ref \in {new_keys_ref(TheSpec)} :
       \E s \in {upgrade_string_to_enum(TheSpec, column_ndx, keys_ref)} :
          FinishSpec(s, [links EXCEPT ![column_ndx + 1].keys = keys_ref])

\* get_subspec(column_ndx) of a Table column: its nested spec's accessor
GetSubspec(column_ndx) ==
    /\ column_ndx < Len(m_types)
    /\ At(m_types, column_ndx) = "Table"
    /\ \E s \in {get_subspec_by_ndx(TheSpec, get_subspec_ndx(TheSpec, column_ndx).value)} :
          FinishSpec(s, links)

\* set_opposite_link_table_ndx(column_ndx, table_ndx) of a Link, LinkList or
\* BackLink column
SetOppositeLinkTableNdx(column_ndx, table_ndx) ==
    /\ column_ndx < Len(m_types)
    /\ At(m_types, column_ndx) \in {"Link", "LinkList", "BackLink"}
    /\ \E s \in {set_opposite_link_table_ndx(TheSpec, column_ndx, table_ndx)} :
          FinishSpec(s, [links EXCEPT ![column_ndx + 1].table = table_ndx])

\* set_backlink_origin_column(backlink_col_ndx, origin_col_ndx) of a BackLink
\* column
SetBacklinkOriginColumn(backlink_col_ndx, origin_col_ndx) ==
    /\ backlink_col_ndx < Len(m_types)
    /\ At(m_types, backlink_col_ndx) = "BackLink"
    /\ \E s \in {set_backlink_origin_column(TheSpec, backlink_col_ndx, origin_col_ndx)} :
          FinishSpec(s, [links EXCEPT ![backlink_col_ndx + 1].origin = origin_col_ndx])

NextSpec ==
    \/ \E c \in 0..MaxColumns,
          t \in {"Int", "String", "Table", "Link", "LinkList", "BackLink"} :
          InsertColumn(c, t)
    \/ \E c \in 0..(MaxColumns - 1) : EraseColumn(c)
    \/ \E c \in 0..(MaxColumns - 1) : UpgradeStringToEnum(c)
    \/ \E c \in 0..(MaxColumns - 1) : GetSubspec(c)
    \/ \E c \in 0..(MaxColumns - 1), t \in 0..MaxTableNdx : SetOppositeLinkTableNdx(c, t)
    \/ \E c \in 0..(MaxColumns - 1), k \in 0..MaxTableNdx : SetBacklinkOriginColumn(c, k)

\* most columns of a Spec whose columns are inserted anywhere
MaxAnyColumns == 3

\* insert_column(column_ndx, type, name, attr) with column_ndx <= column
\* count, for every type and every place at which m_names.insert is inside
\* the array
InsertColumnAnywhere(column_ndx, type) ==
    /\ Len(m_types) < MaxAnyColumns
    /\ column_ndx <= Len(m_types)
    /\ type # "BackLink" => column_ndx <= Len(m_names)
    /\ \E s \in {insert_column(TheSpec, column_ndx, type, "name", 0)} :
          FinishSpec(s, InsertAt(links, column_ndx, NoLinks))

\* REALM_ASSERT((column_ndx >= m_names.size()) == (type == col_type_BackLink))
\* of erase_column, and m_enumkeys.get_as_ref(keys_ndx) inside the array
erase_column_asserts(s, column_ndx) ==
    /\ (column_ndx >= Len(s.names)) = (At(s.types, column_ndx) = "BackLink")
    /\ At(s.types, column_ndx) = "StringEnum" =>
          get_enumkeys_ndx(s, column_ndx) < Len(s.enumkeys)

\* the operations on a Spec whose caller places the columns anywhere; an
\* operation whose assertion fails ends the program
NextColumns ==
    \/ \E c \in 0..MaxAnyColumns, t \in ColumnTypes : InsertColumnAnywhere(c, t)
    \/ \E c \in 0..(MaxAnyColumns - 1) :
          /\ c < Len(m_types)
          /\ erase_column_asserts(TheSpec, c)
          /\ EraseColumn(c)
    \/ \E c \in 0..(MaxAnyColumns - 1) :
          /\ c < Len(m_types)
          /\ get_enumkeys_ndx(TheSpec, c) <= Len(m_enumkeys)
          /\ UpgradeStringToEnum(c)

(***************************************************************************)
(* Spec::operator==, applied to two Specs built by the operations above.   *)
(***************************************************************************)
\* most columns of the Specs that are compared
MaxCompareColumns == 2

RECURSIVE operator_eq(_, _)
RECURSIVE compare_columns(_, _, _)
\* the loop of Spec::operator== over the columns of the left Spec, from
\* column col_ndx on: "true", "false", or "fatal" when an assertion fails
compare_columns(lhs, spec, col_ndx) ==
    IF col_ndx = get_column_count(lhs) THEN "true"
    ELSE
    LET col_type == At(lhs.types, col_ndx)
    IN  IF col_type \in {"String", "StringEnum"}
        THEN IF At(spec.types, col_ndx) \notin {"String", "StringEnum"} THEN "false"
             ELSE compare_columns(lhs, spec, col_ndx + 1)
        ELSE IF col_type = "Table"
        THEN LET subspec_index == get_subspec_ndx(lhs, col_ndx).value
             IN  IF ~(subspec_index < Len(spec.subspec_ptrs)) THEN "fatal"
                 ELSE IF ~At(spec.subspec_ptrs, subspec_index).m_is_spec_ptr THEN "fatal"
                 ELSE LET sub == operator_eq(At(lhs.subspecs, subspec_index).spec[1],
                                             At(spec.subspecs, subspec_index).spec[1])
                      IN  IF sub # "true" THEN sub
                          ELSE compare_columns(lhs, spec, col_ndx + 1)
        ELSE IF col_type \in {"Link", "LinkList"}
        THEN LET lhs_table_ndx == get_opposite_link_table_ndx(lhs, col_ndx)
                 rhs_table_ndx == get_opposite_link_table_ndx(spec, col_ndx)
             IN  IF lhs_table_ndx.fatal \/ rhs_table_ndx.fatal THEN "fatal"
                 ELSE IF lhs_table_ndx.value # rhs_table_ndx.value THEN "false"
                 ELSE compare_columns(lhs, spec, col_ndx + 1)
        ELSE IF At(lhs.types, col_ndx) # At(spec.types, col_ndx) THEN "false"
        ELSE compare_columns(lhs, spec, col_ndx + 1)

\* Spec::operator==
operator_eq(lhs, spec) ==
    IF lhs.attr # spec.attr THEN "false"
    ELSE IF lhs.names # spec.names THEN "false"
    ELSE compare_columns(lhs, spec, 0)

\* the columns the compared Specs are made of: type, name, attributes, the
\* target table of a link column, the columns of a nested spec
Column(type, name, attr, table, nested) ==
    [type |-> type, name |-> name, attr |-> attr, table |-> table, nested |-> nested]

ColumnChoices ==
    {Column("Int", "a", 0, 0, 0), Column("Int", "b", 0, 0, 0), Column("Int", "a", 1, 0, 0),
     Column("String", "a", 0, 0, 0), Column("StringEnum", "a", 0, 0, 0),
     Column("Table", "a", 0, 0, 0), Column("Table", "a", 0, 0, 1),
     Column("Link", "a", 0, 0, 0), Column("Link", "a", 0, 1, 0),
     Column("LinkList", "a", 0, 0, 0), Column("BackLink", "", 0, 0, 0)}

\* add_column: the column is inserted at the end, a link column is given
\* its target, a String column is upgraded, a nested spec gets its columns
AddColumn(s, col) ==
    LET column_ndx == get_column_count(s)
        type == IF col.type = "StringEnum" THEN "String" ELSE col.type
        s1 == insert_column(s, column_ndx, type, col.name, col.attr)
        subspec_ndx == get_subspec_ndx(s1, column_ndx).value
    IN  IF col.type \in {"Link", "LinkList"}
        THEN set_opposite_link_table_ndx(s1, column_ndx, col.table)
        ELSE IF col.type = "BackLink"
        THEN set_backlink_origin_column(
                 set_opposite_link_table_ndx(s1, column_ndx, col.table), column_ndx, 0)
        ELSE IF col.type = "StringEnum"
        THEN upgrade_string_to_enum(s1, column_ndx, "keys")
        ELSE IF col.type = "Table" /\ col.nested > 0
        THEN [s1 EXCEPT !.subspecs[subspec_ndx + 1] =
                 RefEntry(insert_column(create_empty_spec, 0, "Int", "a", 0))]
        ELSE s1

RECURSIVE SpecsUpTo(_)
\* the Specs of at most n columns, backlink columns last
SpecsUpTo(n) ==
    IF n = 0 THEN {create_empty_spec}
    ELSE LET shorter == SpecsUpTo(n - 1)
         IN  shorter \cup
             {AddColumn(p[1], p[2]) :
                 p \in {q \in shorter \X ColumnChoices :
                           (Len(q[1].types) > 0 /\ q[1].types[Len(q[1].types)] = "BackLink")
                               => q[2].type = "BackLink"}}

WellFormedSpecs == SpecsUpTo(MaxCompareColumns)

InitCompare ==
    /\ \E s \in WellFormedSpecs :
          /\ m_types = s.types
          /\ m_names = s.names
          /\ m_attr = s.attr
          /\ m_subspecs = s.subspecs
          /\ m_subspec_ptrs = s.subspec_ptrs
          /\ m_enumkeys = s.enumkeys
          /\ m_top = s.top
          /\ m_subspecs_attached = s.subspecs_attached
          /\ m_enumkeys_attached = s.enumkeys_attached
          /\ links = [c \in 1..Len(s.types) |-> NoLinks]
    /\ rhs \in WellFormedSpecs
    /\ equal = "none"

\* *this == spec
Compare ==
    /\ equal = "none"
    /\ equal' = operator_eq(TheSpec, rhs)
    /\ UNCHANGED <<m_types, m_names, m_attr, m_subspecs, m_subspec_ptrs, m_enumkeys,
                   m_top, m_subspecs_attached, m_enumkeys_attached, links, rhs>>
    /\ UNCHANGED <<colvars, subvars, lockvars, queryvars, refvars, upvars, refreshvars, boundvars, enumvars>>

NextCompare == Compare

(***************************************************************************)
(* The statements of the operations that use m_subtable_map, and the lock. *)
(***************************************************************************)
\* most threads
MaxThreads == 2
\* most entries of the accessor map
MaxLockEntries == 2

Threads == 1..MaxThreads
NoThread == 0
Idle == [op |-> "idle", at |-> 0, unbound |-> FALSE]

InitLock ==
    /\ lock_owner = NoThread
    /\ lock_depth = 0
    /\ pc = [t \in Threads |-> Idle]
    /\ n_entries = 0
    /\ column_alive = TRUE
    /\ touch = [thread |-> NoThread, op |-> "idle", what |-> "none", held |-> FALSE,
                after_unbind |-> FALSE, depth |-> 0]

\* the statement of thread t that is executed, and what it touches of the
\* column: "lock", "unlock", "map", "tree" or "none"
Touch(t, what) ==
    touch' = [thread |-> t, op |-> pc[t].op, what |-> what, held |-> lock_owner = t,
              after_unbind |-> pc[t].unbound, depth |-> lock_depth]

Goto(t, at) == pc' = [pc EXCEPT ![t].at = at]
Return(t) == pc' = [pc EXCEPT ![t] = Idle]

\* std::lock_guard<std::recursive_mutex> lg(m_subtable_map_lock)
Acquire(t) ==
    /\ lock_owner \in {NoThread, t}
    /\ lock_owner' = t
    /\ lock_depth' = lock_depth + 1
    /\ Touch(t, "lock")

\* the end of the scope of a lock_guard
Release(t) ==
    /\ lock_owner' = (IF lock_depth = 1 THEN NoThread ELSE t)
    /\ lock_depth' = lock_depth - 1
    /\ Touch(t, "unlock")

\* a statement that leaves the lock alone
Plain(t, what) ==
    /\ UNCHANGED <<lock_owner, lock_depth>>
    /\ Touch(t, what)

\* SubtableColumn::set_null: destroy_subtable and set_as_ref, then
\* m_subtable_map.adj_set_null
set_null(t) ==
    CASE pc[t].at = 1 -> Plain(t, "tree") /\ Goto(t, 2)
      [] pc[t].at = 2 -> Plain(t, "map") /\ Return(t)

\* a thread calls an operation of the column
Call(t, op) ==
    /\ column_alive
    /\ pc[t].op = "idle"
    /\ pc' = [pc EXCEPT ![t] = [op |-> op, at |-> 1, unbound |-> FALSE]]
    /\ UNCHANGED <<lock_owner, lock_depth, n_entries, column_alive, touch>>

\* SubtableColumn::get_subtable_tableref: lock, find, and when there is no
\* accessor: add, bind_ptr when the map was empty; unlock
GetSubtableTablerefStmt(t) ==
    /\ pc[t].op = "get_subtable_tableref"
    /\ UNCHANGED column_alive
    /\ CASE pc[t].at = 1 -> Acquire(t) /\ Goto(t, 2) /\ UNCHANGED n_entries
         [] pc[t].at = 2 ->
               /\ Plain(t, "map")
               /\ UNCHANGED n_entries
               /\ \/ n_entries > 0 /\ Goto(t, 5)
                  \/ n_entries < MaxLockEntries /\ Goto(t, 3)
         [] pc[t].at = 3 ->
               /\ Plain(t, "map")
               /\ n_entries' = n_entries + 1
               /\ Goto(t, IF n_entries = 0 THEN 4 ELSE 5)
         [] pc[t].at = 4 -> Plain(t, "none") /\ Goto(t, 5) /\ UNCHANGED n_entries
         [] pc[t].at = 5 -> Release(t) /\ Return(t) /\ UNCHANGED n_entries

\* SubtableColumn::set: destroy_subtable, set_as_ref; lock, find, and when
\* there is an accessor its refresh, which comes back to the column and
\* locks again; unlock
SetStmt(t) ==
    /\ pc[t].op = "set"
    /\ UNCHANGED <<n_entries, column_alive>>
    /\ CASE pc[t].at = 1 -> Plain(t, "tree") /\ Goto(t, 2)
         [] pc[t].at = 2 -> Acquire(t) /\ Goto(t, 3)
         [] pc[t].at = 3 ->
               /\ Plain(t, "map")
               /\ \/ n_entries > 0 /\ Goto(t, 4)
                  \/ Goto(t, 6)
         [] pc[t].at = 4 -> Acquire(t) /\ Goto(t, 5)
         [] pc[t].at = 5 -> Release(t) /\ Goto(t, 6)
         [] pc[t].at = 6 -> Release(t) /\ Return(t)

\* SubtableColumn::set_null
SetNullStmt(t) ==
    /\ pc[t].op = "set_null"
    /\ UNCHANGED <<n_entries, column_alive>>
    /\ set_null(t)

\* the destruction of an accessor: the caller locks, child_accessor_destroyed
\* removes the entry and calls unbind_ptr when it was the last, which may
\* destroy the column; the caller unlocks
ChildAccessorDestroyedStmt(t) ==
    /\ pc[t].op = "child_accessor_destroyed"
    /\ CASE pc[t].at = 1 -> Acquire(t) /\ Goto(t, 2) /\ UNCHANGED <<n_entries, column_alive>>
         [] pc[t].at = 2 ->
               /\ Plain(t, "map")
               /\ UNCHANGED column_alive
               /\ \/ /\ n_entries > 0
                     /\ n_entries' = n_entries - 1
                     /\ Goto(t, IF n_entries = 1 THEN 3 ELSE 4)
                  \/ UNCHANGED n_entries /\ Goto(t, 4)
         [] pc[t].at = 3 ->
               /\ Plain(t, "none")
               /\ UNCHANGED n_entries
               /\ pc' = [pc EXCEPT ![t].at = 4, ![t].unbound = TRUE]
               /\ \/ UNCHANGED column_alive
                  \/ /\ \A u \in Threads \ {t} : pc[u].op = "idle"
                     /\ column_alive' = FALSE
         [] pc[t].at = 4 -> Release(t) /\ Return(t) /\ UNCHANGED <<n_entries, column_alive>>

\* SubtableColumnBase::update_from_parent
UpdateFromParentStmt(t) ==
    /\ pc[t].op = "update_from_parent"
    /\ UNCHANGED <<n_entries, column_alive>>
    /\ CASE pc[t].at = 1 -> Plain(t, "tree") /\ Goto(t, 2)
         [] pc[t].at = 2 -> Acquire(t) /\ Goto(t, 3)
         [] pc[t].at = 3 -> Plain(t, "map") /\ Goto(t, 4)
         [] pc[t].at = 4 -> Release(t) /\ Return(t)

\* SubtableColumnBase::verify: lock, SubtableMap::verify, which calls
\* get_subtable_tableref of the column for an entry (lock, find, unlock);
\* unlock, the tree
VerifyStmt(t) ==
    /\ pc[t].op = "verify"
    /\ UNCHANGED <<n_entries, column_alive>>
    /\ CASE pc[t].at = 1 -> Acquire(t) /\ Goto(t, 2)
         [] pc[t].at = 2 ->
               /\ Plain(t, "map")
               /\ Goto(t, IF n_entries > 0 THEN 3 ELSE 6)
         [] pc[t].at = 3 -> Acquire(t) /\ Goto(t, 4)
         [] pc[t].at = 4 -> Plain(t, "map") /\ Goto(t, 5)
         [] pc[t].at = 5 -> Release(t) /\ Goto(t, 6)
         [] pc[t].at = 6 -> Release(t) /\ Goto(t, 7)
         [] pc[t].at = 7 -> Plain(t, "tree") /\ Return(t)

Operations == {"get_subtable_tableref", "set", "set_null", "child_accessor_destroyed",
               "update_from_parent", "verify"}

NextLock ==
    \/ \E t \in Threads, op \in Operations :
          Call(t, op) /\ UNCHANGED <<colvars, subvars, specvars, queryvars, refvars, upvars, refreshvars, boundvars, enumvars>>
    \/ \E t \in Threads :
          GetSubtableTablerefStmt(t) /\ UNCHANGED <<colvars, subvars, specvars, queryvars, refvars, upvars, refreshvars, boundvars, enumvars>>
    \/ \E t \in Threads : SetStmt(t) /\ UNCHANGED <<colvars, subvars, specvars, queryvars, refvars, upvars, refreshvars, boundvars, enumvars>>
    \/ \E t \in Threads : SetNullStmt(t) /\ UNCHANGED <<colvars, subvars, specvars, queryvars, refvars, upvars, refreshvars, boundvars, enumvars>>
    \/ \E t \in Threads :
          ChildAccessorDestroyedStmt(t) /\ UNCHANGED <<colvars, subvars, specvars, queryvars, refvars, upvars, refreshvars, boundvars, enumvars>>
    \/ \E t \in Threads :
          UpdateFromParentStmt(t) /\ UNCHANGED <<colvars, subvars, specvars, queryvars, refvars, upvars, refreshvars, boundvars, enumvars>>
    \/ \E t \in Threads : VerifyStmt(t) /\ UNCHANGED <<colvars, subvars, specvars, queryvars, refvars, upvars, refreshvars, boundvars, enumvars>>

(***************************************************************************)
(* The query tests: a table of an integer and a string column, and a query *)
(* of chained conditions.                                                  *)
(***************************************************************************)
MaxTableRows == 7
MaxConditions == 3

\* TDB_TABLE_2(TupleTableType, Int, first, String, second)
TupleTableType(first, second) == [first |-> first, second |-> second]

\* a condition on the integer column: first.Greater(2), ...
IntCondition(op, value) == [column |-> "first", op |-> op, int |-> value, string |-> ""]

\* a condition on the string column: second.Equal("a"), ...
StringCondition(op, value) == [column |-> "second", op |-> op, int |-> 0, string |-> value]

\* the conditions of the tests
Conditions ==
    {StringCondition("Equal", "a"), StringCondition("Equal", "X"),
     StringCondition("NotEqual", "a"), IntCondition("Greater", 2),
     IntCondition("Greater", 4), IntCondition("NotEqual", 4), IntCondition("Less", 3)}

\* a variant of Match whose Greater lets the value itself through
Match_greater_or_equal(cond, row) ==
    IF cond.column = "second"
    THEN (cond.op = "Equal") = (row.second = cond.string)
    ELSE CASE cond.op = "Equal" -> row.first = cond.int
           [] cond.op = "NotEqual" -> row.first # cond.int
           [] cond.op = "Greater" -> row.first >= cond.int
           [] cond.op = "Less" -> row.first < cond.int

\* one condition on one row
Match(cond, row) ==
    IF cond.column = "second"
    THEN (cond.op = "Equal") = (row.second = cond.string)
    ELSE CASE cond.op = "Equal" -> row.first = cond.int
           [] cond.op = "NotEqual" -> row.first # cond.int
           [] cond.op = "Greater" -> row.first > cond.int
           [] cond.op = "Less" -> row.first < cond.int

RECURSIVE Narrow(_, _, _, _)
\* the rows of the view so far that the conditions from the i-th on let
\* through
Narrow(table, query, i, refs) ==
    IF i > Len(query) THEN refs
    ELSE Narrow(table, query, i + 1,
                SelectSeq(refs, LAMBDA r : Match(query[i], table[r + 1])))

\* Query::FindAll(table)
Query_FindAll(table, query) ==
    Narrow(table, query, 1, [i \in 1..Len(table) |-> i - 1])

InitQuery ==
    /\ ttt = <<>>
    /\ chain = <<>>
    /\ tv = [valid |-> FALSE, refs |-> <<>>]

\* ttt.Add(first, second): the tests number the rows in the first column
TableAdd(second) ==
    /\ Len(ttt) < MaxTableRows
    /\ chain = <<>>
    /\ ~tv.valid
    /\ ttt' = Append(ttt, TupleTableType(Len(ttt) + 1, second))
    /\ UNCHANGED <<chain, tv>>
    /\ UNCHANGED <<colvars, subvars, specvars, lockvars, refvars, upvars, refreshvars, boundvars, enumvars>>

\* ttt.Query(), and one more condition chained to it
QueryCondition(cond) ==
    /\ Len(chain) < MaxConditions
    /\ ~tv.valid
    /\ chain' = Append(chain, cond)
    /\ UNCHANGED <<ttt, tv>>
    /\ UNCHANGED <<colvars, subvars, specvars, lockvars, refvars, upvars, refreshvars, boundvars, enumvars>>

\* TableView tv = chain.FindAll(ttt)
FindAllQuery ==
    /\ chain # <<>>
    /\ ~tv.valid
    /\ tv' = [valid |-> TRUE, refs |-> Query_FindAll(ttt, chain)]
    /\ UNCHANGED <<ttt, chain>>
    /\ UNCHANGED <<colvars, subvars, specvars, lockvars, refvars, upvars, refreshvars, boundvars, enumvars>>

\* the next query of the test
NextQuery ==
    /\ tv.valid
    /\ chain' = <<>>
    /\ tv' = [valid |-> FALSE, refs |-> <<>>]
    /\ UNCHANGED ttt
    /\ UNCHANGED <<colvars, subvars, specvars, lockvars, refvars, upvars, refreshvars, boundvars, enumvars>>

NextQueryTest ==
    \/ \E second \in {"a", "X"} : TableAdd(second)
    \/ \E cond \in Conditions : QueryCondition(cond)
    \/ FindAllQuery
    \/ NextQuery

(***************************************************************************)
(* TColumn::destroy_subtree on a column of refs and tagged integers, and   *)
(* detach of a column accessor.                                            *)
(***************************************************************************)
MaxSlots == 3

\* cell values: no subtree, tagged integers (odd), refs (8-byte aligned)
SlotValues == {0, 1, 3, 0 - 3, 8, 16}
SlotRefs == {8, 16}

\* value % 2 of C++, which truncates towards zero
rem2(value) == IF value >= 0 THEN value % 2 ELSE 0 - ((0 - value) % 2)

\* the column in the middle of an operation
Tree == [slots |-> slots, allocated |-> allocated]

\* a variant of destroy_subtree without the test of the lowest bit
destroy_subtree_follows_odd(t, ndx, clear_value) ==
    LET value == At(t.slots, ndx)
    IN  IF value = 0 THEN t
        ELSE LET destroyed == [t EXCEPT !.allocated = @ \ {value}]
             IN  IF clear_value THEN [destroyed EXCEPT !.slots = SetAt(@, ndx, 0)]
                 ELSE destroyed

\* TColumn::destroy_subtree
destroy_subtree(t, ndx, clear_value) ==
    LET value == At(t.slots, ndx)
    IN  IF value = 0 THEN t
        ELSE IF rem2(value) # 0 THEN t
        ELSE LET destroyed == [t EXCEPT !.allocated = @ \ {value}]
             IN  IF clear_value THEN [destroyed EXCEPT !.slots = SetAt(@, ndx, 0)]
                 ELSE destroyed

NoDestroy == [op |-> "init", ndx |-> npos, clear_value |-> FALSE,
              before |-> [slots |-> <<>>, allocated |-> {}]]

InitRefs ==
    /\ attached = TRUE
    /\ slots = <<>>
    /\ allocated = {}
    /\ dlast = NoDestroy

\* add(value): a new cell; a ref is the ref of a subtree that has just been
\* allocated
SlotAdd(value) ==
    /\ Len(slots) < MaxSlots
    /\ value \in SlotRefs => value \notin allocated /\ \A i \in 1..Len(slots) : slots[i] # value
    /\ slots' = Append(slots, value)
    /\ allocated' = IF value \in SlotRefs THEN allocated \cup {value} ELSE allocated
    /\ dlast' = [NoDestroy EXCEPT !.op = "add"]
    /\ UNCHANGED attached
    /\ UNCHANGED <<colvars, subvars, specvars, lockvars, queryvars, upvars, refreshvars, boundvars, enumvars>>

\* destroy_subtree(ndx, clear_value) on a cell whose ref, if it is one, is
\* the ref of an allocated subtree
DestroySubtree(ndx, clear_value) ==
    /\ ndx < Len(slots)
    /\ At(slots, ndx) \in SlotRefs => At(slots, ndx) \in allocated
    /\ \E t \in {destroy_subtree(Tree, ndx, clear_value)} :
          /\ slots' = t.slots
          /\ allocated' = t.allocated
    /\ dlast' = [op |-> "destroy_subtree", ndx |-> ndx, clear_value |-> clear_value,
                 before |-> Tree]
    /\ UNCHANGED attached
    /\ UNCHANGED <<colvars, subvars, specvars, lockvars, queryvars, upvars, refreshvars, boundvars, enumvars>>

NextRefs ==
    \/ \E value \in SlotValues : SlotAdd(value)
    \/ \E ndx \in 0..(MaxSlots - 1), clear_value \in BOOLEAN : DestroySubtree(ndx, clear_value)

\* ColumnBaseSimple::detach: m_array->detach(); the storage stays as it is
Detach ==
    /\ attached' = FALSE
    /\ last' = [NoOp EXCEPT !.op = "detach"]
    /\ UNCHANGED <<kind, nullable, has_index, unique, root, keys, index, model>>
    /\ UNCHANGED <<slots, allocated, dlast>>
    /\ UNCHANGED <<subvars, specvars, lockvars, queryvars, upvars, refreshvars, boundvars, enumvars>>

\* the operations of a column
ColumnOperations ==
    {"size", "get", "set", "insert", "erase", "move_last_over", "clear", "find_first"}

\* an operation on a detached column: no operation looks at is_attached(),
\* each goes on to the root array, which has no memory any more
detached_call(c, op) == Rejected(c) \cup Undefined(c)

\* size(), get(ndx), set(ndx, value), ... on a detached column
DetachedCall(op) ==
    /\ ~attached
    /\ \E c \in detached_call(Col, op) :
          Finish(c, op, npos, npos, <<>>, 0, ColumnValues(Col))

NextDetach ==
    \/ \E v \in Values : attached /\ Add(v)
    \/ Detach
    \/ \E op \in ColumnOperations : DetachedCall(op)

(***************************************************************************)
(* A leaf upgrade, one statement at a time.                                *)
(***************************************************************************)
\* the upgrades of the string column and of the binary column
Upgrades ==
    {[site |-> site, from |-> e[1], to |-> e[2], mutation |-> m] :
        site \in {"StringColumn::upgrade_root_leaf", "SetLeafElem::update",
                  "StringColumn::leaf_insert"},
        e \in {<<"small", "medium">>, <<"small", "big">>, <<"medium", "big">>},
        m \in {"set", "insert"}}
    \cup
    {[site |-> site, from |-> "small", to |-> "big", mutation |-> m] :
        site \in {"BinaryColumn::upgrade_root_leaf", "BinaryColumn::SetLeafElem::update",
                  "BinaryColumn::leaf_insert"},
        m \in {"set", "insert"}}

RootSites == {"StringColumn::upgrade_root_leaf", "BinaryColumn::upgrade_root_leaf"}

NoUpgrade == [site |-> "", from |-> "", to |-> "", mutation |-> ""]

InitUpgrade ==
    /\ upgrade = NoUpgrade
    /\ old_leaf = [size |-> 0, alive |-> FALSE]
    /\ new_leaf = [created |-> FALSE, size |-> 0, mutated |-> FALSE]
    /\ parent_slot = "leaf"
    /\ root_accessor = "leaf"
    /\ upgrade_pc = "idle"

\* a set or an insert whose value does not fit the leaf's encoding
StartUpgrade(u, size) ==
    /\ upgrade_pc = "idle"
    /\ u.mutation = (IF u.site \in {"SetLeafElem::update", "BinaryColumn::SetLeafElem::update"}
                     THEN "set"
                     ELSE IF u.site \in RootSites THEN u.mutation ELSE "insert")
    /\ u.mutation = "set" => size > 0
    /\ upgrade' = u
    /\ old_leaf' = [size |-> size, alive |-> TRUE]
    /\ new_leaf' = [created |-> FALSE, size |-> 0, mutated |-> FALSE]
    /\ parent_slot' = "leaf"
    /\ root_accessor' = "leaf"
    /\ upgrade_pc' = "create"
    /\ UNCHANGED <<colvars, subvars, specvars, lockvars, queryvars, refvars, refreshvars, boundvars, enumvars>>

\* new_leaf.create()
Create ==
    /\ upgrade_pc = "create"
    /\ new_leaf' = [new_leaf EXCEPT !.created = TRUE]
    /\ upgrade_pc' = "update_parent"
    /\ UNCHANGED <<upgrade, old_leaf, parent_slot, root_accessor>>
    /\ UNCHANGED <<colvars, subvars, specvars, lockvars, queryvars, refvars, refreshvars, boundvars, enumvars>>

\* new_leaf.set_parent(parent, ndx_in_parent); new_leaf.update_parent()
UpdateParent ==
    /\ upgrade_pc = "update_parent"
    /\ parent_slot' = "new_leaf"
    /\ upgrade_pc' = "copy_leaf"
    /\ UNCHANGED <<upgrade, old_leaf, new_leaf, root_accessor>>
    /\ UNCHANGED <<colvars, subvars, specvars, lockvars, queryvars, refvars, refreshvars, boundvars, enumvars>>

\* copy_leaf(leaf, new_leaf): one to.add(from.get(i)) of its loop
CopyLeaf ==
    /\ upgrade_pc = "copy_leaf"
    /\ new_leaf.size < old_leaf.size
    /\ new_leaf' = [new_leaf EXCEPT !.size = @ + 1]
    /\ UNCHANGED <<upgrade, old_leaf, parent_slot, root_accessor, upgrade_pc>>
    /\ UNCHANGED <<colvars, subvars, specvars, lockvars, queryvars, refvars, refreshvars, boundvars, enumvars>>

\* leaf.destroy(), after the loop of copy_leaf
Destroy ==
    /\ upgrade_pc = "copy_leaf"
    /\ new_leaf.size = old_leaf.size
    /\ old_leaf' = [old_leaf EXCEPT !.alive = FALSE]
    /\ upgrade_pc' = IF upgrade.site \in RootSites THEN "move" ELSE "mutate"
    /\ UNCHANGED <<upgrade, new_leaf, parent_slot, root_accessor>>
    /\ UNCHANGED <<colvars, subvars, specvars, lockvars, queryvars, refvars, refreshvars, boundvars, enumvars>>

\* m_array = std::move(new_leaf)
MoveRoot ==
    /\ upgrade_pc = "move"
    /\ root_accessor' = "new_leaf"
    /\ upgrade_pc' = "mutate"
    /\ UNCHANGED <<upgrade, old_leaf, new_leaf, parent_slot>>
    /\ UNCHANGED <<colvars, subvars, specvars, lockvars, queryvars, refvars, refreshvars, boundvars, enumvars>>

\* new_leaf.set(elem_ndx_in_leaf, value) or new_leaf.bptree_leaf_insert(...)
Mutate ==
    /\ upgrade_pc = "mutate"
    /\ new_leaf' = [new_leaf EXCEPT !.mutated = TRUE,
                                    !.size = IF upgrade.mutation = "insert" THEN @ + 1 ELSE @]
    /\ upgrade_pc' = "idle"
    /\ UNCHANGED <<upgrade, old_leaf, parent_slot, root_accessor>>
    /\ UNCHANGED <<colvars, subvars, specvars, lockvars, queryvars, refvars, refreshvars, boundvars, enumvars>>

NextUpgrade ==
    \/ \E u \in Upgrades, size \in 0..MaxLeaf : StartUpgrade(u, size)
    \/ Create
    \/ UpdateParent
    \/ CopyLeaf
    \/ Destroy
    \/ MoveRoot
    \/ Mutate

(***************************************************************************)
(* SubtableMap::refresh_accessor_tree, statement by statement              *)
(***************************************************************************)
MaxRefreshEntries == 3

RefreshTables == 1..MaxRefreshEntries

RefreshRows == 0..(MaxRefreshEntries - 1)

\* a sub-table accessor: its index in parent, its dirty mark, whether
\* someone else than the loop holds a counted reference to it, its version,
\* and how often its accessor tree and its Spec accessor were refreshed
NoRefreshTable == [ndx_in_parent |-> 0, marked |-> FALSE, held |-> FALSE, in_map |-> FALSE,
                   version |-> 0, tree_refreshes |-> 0, spec_refreshes |-> 0]

InitRefresh ==
    /\ map_entries = <<>>
    /\ loop_i = 0
    /\ start_entries = <<>>
    /\ tables = [t \in RefreshTables |-> NoRefreshTable]
    /\ visits = <<>>
    /\ refresh_pc = "idle"
    /\ bad_read = FALSE

\* a variant of the loop that walks the map from its first entry on
refresh_entry_ndx_forward(i, size) == size + 1 - i

\* "m_entries[i - 1]" for i from m_entries.size() down to 1
refresh_entry_ndx(i, size) == i

\* before the refresh: get_subtable_tableref registers an accessor for a
\* row; the transaction that follows may leave its index in parent stale and
\* may mark it
RegisterAccessor(table, row, stale_ndx, mark) ==
    /\ refresh_pc = "idle"
    /\ ~tables[table].in_map
    /\ SubtableMap_find(map_entries, row) = NoTable
    /\ map_entries' = SubtableMap_add(map_entries, row, table)
    /\ tables' = [tables EXCEPT ![table] =
                    [@ EXCEPT !.ndx_in_parent = stale_ndx, !.marked = mark,
                              !.held = TRUE, !.in_map = TRUE]]
    /\ UNCHANGED <<loop_i, start_entries, visits, refresh_pc, bad_read>>
    /\ UNCHANGED <<colvars, subvars, specvars, lockvars, queryvars, refvars, upvars, boundvars, enumvars>>

\* "for (size_t i = m_entries.size(); ..."
StartRefresh ==
    /\ refresh_pc = "idle"
    /\ loop_i' = Len(map_entries)
    /\ start_entries' = map_entries
    /\ refresh_pc' = "loop"
    /\ UNCHANGED <<map_entries, tables, visits, bad_read>>
    /\ UNCHANGED <<colvars, subvars, specvars, lockvars, queryvars, refvars, upvars, boundvars, enumvars>>

\* the body of the loop up to the end of the iteration: the entry is read, a
\* counted reference taken, the index in parent set, and the accessor
\* refreshed according to its mark
Visit ==
    /\ refresh_pc = "loop"
    /\ loop_i > 0
    /\ \E ndx \in {refresh_entry_ndx(loop_i, Len(start_entries))} :
          IF ndx > Len(map_entries)
          THEN /\ bad_read' = TRUE
               /\ refresh_pc' = "done"
               /\ UNCHANGED <<map_entries, loop_i, start_entries, tables, visits>>
          ELSE \E entry \in {map_entries[ndx]} :
               /\ tables' = [tables EXCEPT ![entry.m_table] =
                     IF @.marked
                     THEN [@ EXCEPT !.ndx_in_parent = entry.m_subtable_ndx,
                                    !.tree_refreshes = @ + 1,
                                    !.version = @ + 1,
                                    !.marked = FALSE]
                     ELSE [@ EXCEPT !.ndx_in_parent = entry.m_subtable_ndx,
                                    !.spec_refreshes = @ + 1]]
               /\ visits' = Append(visits, [table |-> entry.m_table,
                                            ndx |-> entry.m_subtable_ndx,
                                            tree |-> tables[entry.m_table].marked])
               /\ refresh_pc' = "visiting"
               /\ UNCHANGED <<map_entries, loop_i, start_entries, bad_read>>
    /\ UNCHANGED <<colvars, subvars, specvars, lockvars, queryvars, refvars, upvars, boundvars, enumvars>>

\* during the visit the other holders of the visited accessor let go of it
ReleaseOther ==
    /\ refresh_pc = "visiting"
    /\ tables[visits[Len(visits)].table].held
    /\ tables' = [tables EXCEPT ![visits[Len(visits)].table].held = FALSE]
    /\ UNCHANGED <<map_entries, loop_i, start_entries, visits, refresh_pc, bad_read>>
    /\ UNCHANGED <<colvars, subvars, specvars, lockvars, queryvars, refvars, upvars, boundvars, enumvars>>

\* the end of the iteration: the counted reference is dropped; an accessor
\* nobody else holds is destroyed and removes itself from the map; "--i"
EndVisit ==
    /\ refresh_pc = "visiting"
    /\ \E table \in {visits[Len(visits)].table} :
          IF tables[table].held
          THEN UNCHANGED <<map_entries, tables>>
          ELSE /\ map_entries' = SubtableMap_remove(map_entries, table).entries
               /\ tables' = [tables EXCEPT ![table].in_map = FALSE]
    /\ loop_i' = loop_i - 1
    /\ refresh_pc' = "loop"
    /\ UNCHANGED <<start_entries, visits, bad_read>>
    /\ UNCHANGED <<colvars, subvars, specvars, lockvars, queryvars, refvars, upvars, boundvars, enumvars>>

\* "i > 0" is false
EndRefresh ==
    /\ refresh_pc = "loop"
    /\ loop_i = 0
    /\ refresh_pc' = "done"
    /\ UNCHANGED <<map_entries, loop_i, start_entries, tables, visits, bad_read>>
    /\ UNCHANGED <<colvars, subvars, specvars, lockvars, queryvars, refvars, upvars, boundvars, enumvars>>

NextRefresh ==
    \/ \E table \in RefreshTables, row \in RefreshRows, stale_ndx \in RefreshRows,
          mark \in BOOLEAN : RegisterAccessor(table, row, stale_ndx, mark)
    \/ StartRefresh
    \/ Visit
    \/ ReleaseOther
    \/ EndVisit
    \/ EndRefresh

(***************************************************************************)
(* ColumnBase::lower_bound and ColumnBase::upper_bound, iteration by       *)
(* iteration, on a list sorted in ascending order.                         *)
(***************************************************************************)
MaxListLen == 4

MaxListValue == 3

ListValues == 0..MaxListValue

SortedLists ==
    UNION {{l \in [1..n -> ListValues] : \A k \in 1..(n - 1) : l[k] <= l[k + 1]} :
              n \in 0..MaxListLen}

\* a variant of the iteration of lower_bound that compares with <=
lower_bound_step_le(list, value, st) ==
    LET half == st.size \div 2
        mid == st.i + half
        probe == At(list, mid)
    IN  IF probe <= value THEN [i |-> mid + 1, size |-> st.size - (half + 1)]
        ELSE [i |-> st.i, size |-> half]

\* one iteration of ColumnBase::lower_bound
lower_bound_step(list, value, st) ==
    LET half == st.size \div 2
        mid == st.i + half
        probe == At(list, mid)
    IN  IF probe < value THEN [i |-> mid + 1, size |-> st.size - (half + 1)]
        ELSE [i |-> st.i, size |-> half]

\* one iteration of ColumnBase::upper_bound
upper_bound_step(list, value, st) ==
    LET half == st.size \div 2
        mid == st.i + half
        probe == At(list, mid)
    IN  IF ~(value < probe) THEN [i |-> mid + 1, size |-> st.size - (half + 1)]
        ELSE [i |-> st.i, size |-> half]

\* "i = 0; size = list.size()"
bound_start(list) == [i |-> 0, size |-> Len(list)]

\* no call of lower_bound or upper_bound
NoBoundsCall ==
    /\ b_list = <<>>
    /\ b_value = 0
    /\ b_state = bound_start(<<>>)
    /\ b_pc = "idle"
    /\ b_lower = npos
    /\ b_upper = npos

\* lower_bound is called with a sorted list and a value
InitBoundsCall ==
    /\ b_list \in SortedLists
    /\ b_value \in ListValues
    /\ b_state = bound_start(b_list)
    /\ b_pc = "lower_bound"
    /\ b_lower = npos
    /\ b_upper = npos

\* "while (0 < size)" of lower_bound
LowerBoundStep ==
    /\ b_pc = "lower_bound"
    /\ 0 < b_state.size
    /\ b_state' = lower_bound_step(b_list, b_value, b_state)
    /\ UNCHANGED <<b_list, b_value, b_pc, b_lower, b_upper>>
    /\ UNCHANGED <<colvars, subvars, specvars, lockvars, queryvars, refvars, upvars,
                   refreshvars, enumvars>>

\* "return i" of lower_bound; upper_bound is called with the same arguments
LowerBoundReturn ==
    /\ b_pc = "lower_bound"
    /\ ~(0 < b_state.size)
    /\ b_lower' = b_state.i
    /\ b_state' = bound_start(b_list)
    /\ b_pc' = "upper_bound"
    /\ UNCHANGED <<b_list, b_value, b_upper>>
    /\ UNCHANGED <<colvars, subvars, specvars, lockvars, queryvars, refvars, upvars,
                   refreshvars, enumvars>>

\* "while (0 < size)" of upper_bound
UpperBoundStep ==
    /\ b_pc = "upper_bound"
    /\ 0 < b_state.size
    /\ b_state' = upper_bound_step(b_list, b_value, b_state)
    /\ UNCHANGED <<b_list, b_value, b_pc, b_lower, b_upper>>
    /\ UNCHANGED <<colvars, subvars, specvars, lockvars, queryvars, refvars, upvars,
                   refreshvars, enumvars>>

\* "return i" of upper_bound
UpperBoundReturn ==
    /\ b_pc = "upper_bound"
    /\ ~(0 < b_state.size)
    /\ b_upper' = b_state.i
    /\ b_pc' = "done"
    /\ UNCHANGED <<b_list, b_value, b_state, b_lower>>
    /\ UNCHANGED <<colvars, subvars, specvars, lockvars, queryvars, refvars, upvars,
                   refreshvars, enumvars>>

NextBounds ==
    \/ LowerBoundStep
    \/ LowerBoundReturn
    \/ UpperBoundStep
    \/ UpperBoundReturn

(***************************************************************************)
(* StringColumn::auto_enumerate.                                           *)
(***************************************************************************)
MaxSourceRows == 4

\* the strings of a source column: null (of a nullable column), the empty
\* string, and a short and a medium string
SourceValues ==
    {StringData(0), StringData(1), StringData(16)} \cup (IF nullable THEN {null} ELSE {})

\* the place of a string in the order of StringData: null is less than
\* every string, and a string that is a prefix of another is less than it
StringData_rank(v) == IF v.is_null THEN 0 ELSE v.size + 1

\* the strings of a column as the list lower_bound compares
ranks(T) == [k \in 1..tree_size(T) |-> StringData_rank(tree_get(T, k - 1))]

RECURSIVE lower_bound_from(_, _, _)
\* ColumnBase::lower_bound from an iteration of its loop on
lower_bound_from(list, value, st) ==
    IF 0 < st.size THEN lower_bound_from(list, value, lower_bound_step(list, value, st))
    ELSE st.i

\* StringColumn::lower_bound_string: whatever the root is, the column is
\* searched through get()
lower_bound_string(T, value) ==
    lower_bound_from(ranks(T), StringData_rank(value), bound_start(ranks(T)))

\* StringColumn::insert(row_ndx, value) of a column without search index
StringColumn_insert(T, row_ndx, value) ==
    StringColumn_bptree_insert(T, IF row_ndx = tree_size(T) THEN npos ELSE row_ndx, value, 1)

\* what a call of auto_enumerate leaves: what it returned, the temporary
\* key column and whether it was destroyed, the value column, and the refs
\* it assigned
NoEnumeration ==
    [returned |-> "", keys |-> RootLeaf(ArrayString_create), keys_destroyed |-> FALSE,
     values |-> RootLeaf(ArrayInteger_create), keys_ref |-> FALSE, values_ref |-> FALSE,
     asserted |-> FALSE]

RECURSIVE generate_keys_eager(_, _, _, _)
\* a variant of the first loop that gives up as soon as the key column is
\* larger than half of the rows, whatever the next value is
generate_keys_eager(src, enf, K, i) ==
    IF i = Len(src) THEN [keys |-> K, gave_up |-> FALSE]
    ELSE LET v == At(src, i)
             pos == lower_bound_string(K, v)
         IN  IF ~enf /\ Len(src) \div 2 < tree_size(K)
             THEN [keys |-> K, gave_up |-> TRUE]
             ELSE IF pos # tree_size(K) /\ tree_get(K, pos) = v
             THEN generate_keys_eager(src, enf, K, i + 1)
             ELSE generate_keys_eager(src, enf, StringColumn_insert(K, pos, v), i + 1)

RECURSIVE generate_keys_unsorted(_, _, _, _)
\* a variant of the first loop that adds a new key at the end
generate_keys_unsorted(src, enf, K, i) ==
    IF i = Len(src) THEN [keys |-> K, gave_up |-> FALSE]
    ELSE LET v == At(src, i)
             pos == lower_bound_string(K, v)
         IN  IF pos # tree_size(K) /\ tree_get(K, pos) = v
             THEN generate_keys_unsorted(src, enf, K, i + 1)
             ELSE IF ~enf /\ Len(src) \div 2 < tree_size(K)
             THEN [keys |-> K, gave_up |-> TRUE]
             ELSE generate_keys_unsorted(src, enf, StringColumn_insert(K, tree_size(K), v),
                                         i + 1)

RECURSIVE generate_keys(_, _, _, _)
\* the first loop of auto_enumerate from row i on: the keys are inserted in
\* sorted order, ignoring duplicates
generate_keys(src, enf, K, i) ==
    IF i = Len(src) THEN [keys |-> K, gave_up |-> FALSE]
    ELSE LET v == At(src, i)
             pos == lower_bound_string(K, v)
         IN  IF pos # tree_size(K) /\ tree_get(K, pos) = v
             THEN generate_keys(src, enf, K, i + 1)
             ELSE IF ~enf /\ Len(src) \div 2 < tree_size(K)
             THEN [keys |-> K, gave_up |-> TRUE]
             ELSE generate_keys(src, enf, StringColumn_insert(K, pos, v), i + 1)

RECURSIVE generate_values(_, _, _, _)
\* the second loop of auto_enumerate from row i on
generate_values(src, K, V, i) ==
    IF i = Len(src) THEN [values |-> V, asserted |-> FALSE]
    ELSE LET pos == lower_bound_string(K, At(src, i))
         IN  IF pos = tree_size(K) THEN [values |-> V, asserted |-> TRUE]
             ELSE generate_values(src, K, BpTree_insert(V, npos, pos, 1), i + 1)

\* StringColumn::auto_enumerate
auto_enumerate(src, enf) ==
    LET k == generate_keys(src, enf, RootLeaf(ArrayString_create), 0)
        v == generate_values(src, k.keys, RootLeaf(ArrayInteger_create), 0)
    IN  IF k.gave_up
        THEN [NoEnumeration EXCEPT !.returned = "false", !.keys = k.keys,
                                   !.keys_destroyed = TRUE]
        ELSE IF v.asserted
        THEN [NoEnumeration EXCEPT !.returned = "fatal", !.keys = k.keys,
                                   !.values = v.values, !.asserted = TRUE]
        ELSE [NoEnumeration EXCEPT !.returned = "true", !.keys = k.keys,
                                   !.values = v.values, !.keys_ref = TRUE,
                                   !.values_ref = TRUE]

\* no call of auto_enumerate
NoEnumerateCall ==
    /\ source = <<>>
    /\ enforce = FALSE
    /\ enumerated = NoEnumeration

\* a string column without search index, and the flag it is enumerated with
InitEnumerateCall ==
    /\ kind = "string"
    /\ nullable \in BOOLEAN
    /\ has_index = FALSE
    /\ unique = FALSE
    /\ root = RootLeaf(ArrayString_create)
    /\ keys = RootLeaf(ArrayString_create)
    /\ index = {}
    /\ model = <<>>
    /\ last = NoOp
    /\ source \in UNION {[1..n -> SourceValues] : n \in 0..MaxSourceRows}
    /\ enforce \in BOOLEAN
    /\ enumerated = NoEnumeration

\* auto_enumerate(keys_ref, values_ref, enforce)
AutoEnumerate ==
    /\ enumerated.returned = ""
    /\ \E e \in {auto_enumerate(source, enforce)} : enumerated' = e
    /\ UNCHANGED <<source, enforce>>
    /\ UNCHANGED <<colvars, subvars, specvars, lockvars, queryvars, refvars, upvars,
                   refreshvars, boundvars>>

NextEnumerate == AutoEnumerate

vars == <<colvars, subvars, specvars, lockvars, queryvars, refvars, upvars, refreshvars, boundvars, enumvars>>

\* a column whose search index, if any, accepts duplicate values
Init == InitColumn /\ unique = FALSE /\ InitSub /\ InitSpec /\ InitLock /\ InitQuery /\ InitRefs /\ InitUpgrade /\ InitRefresh /\ NoBoundsCall /\ NoEnumerateCall

Spec == Init /\ [][Next]_vars

\* a column with a search index that enforces the unique constraint
InitUnique == InitColumn /\ has_index /\ unique = TRUE /\ InitSub /\ InitSpec /\ InitLock /\ InitQuery /\ InitRefs /\ InitUpgrade /\ InitRefresh /\ NoBoundsCall /\ NoEnumerateCall

SpecUnique == InitUnique /\ [][Next]_vars

\* a column that is searched, and called with rows and ranges outside it
InitCalls == InitCallsColumn /\ InitSub /\ InitSpec /\ InitLock /\ InitQuery /\ InitRefs /\ InitUpgrade /\ InitRefresh /\ NoBoundsCall /\ NoEnumerateCall

SpecCalls == InitCalls /\ [][NextCalls]_vars

\* a column that is searched
InitFind == InitFindColumn /\ InitSub /\ InitSpec /\ InitLock /\ InitQuery /\ InitRefs /\ InitUpgrade /\ InitRefresh /\ NoBoundsCall /\ NoEnumerateCall

SpecFind == InitFind /\ [][NextFind]_vars

\* a sub-table column
InitSubtable ==
    /\ InitLock /\ InitQuery /\ InitRefs /\ InitUpgrade /\ InitRefresh /\ NoBoundsCall /\ NoEnumerateCall
    /\ InitQuery
    /\ InitSub
    /\ InitSpec
    /\ InitColumn
    /\ kind = "int"
    /\ ~has_index
    /\ unique = FALSE

SpecSubtable == InitSubtable /\ [][NextSub]_vars

\* a Spec whose columns are inserted anywhere
SpecColumns == InitSubtable /\ [][NextColumns]_vars

\* the query tests
SpecQuery == InitSubtable /\ [][NextQueryTest]_vars

\* a column of refs and tagged integers
SpecRefs == InitSubtable /\ [][NextRefs]_vars

\* a column that is detached
SpecDetach == InitCalls /\ [][NextDetach]_vars

\* leaf upgrades
SpecUpgrade == InitSubtable /\ [][NextUpgrade]_vars

\* a sub-table column whose operations may end with an exception
SpecSubtableFaults == InitSubtable /\ [][NextSubFaults]_vars

\* a sub-table map that is refreshed
SpecRefresh == InitSubtable /\ [][NextRefresh]_vars

\* a sorted list that is searched; a loop that can go on does go on
InitBounds ==
    /\ InitLock /\ InitQuery /\ InitRefs /\ InitUpgrade /\ InitRefresh
    /\ InitBoundsCall /\ NoEnumerateCall
    /\ InitSub
    /\ InitSpec
    /\ InitColumn
    /\ kind = "int"
    /\ ~has_index
    /\ unique = FALSE

SpecBounds == InitBounds /\ [][NextBounds]_vars /\ WF_vars(NextBounds)

\* a string column that is enumerated
InitEnumerate ==
    /\ InitLock /\ InitQuery /\ InitRefs /\ InitUpgrade /\ InitRefresh
    /\ NoBoundsCall
    /\ InitSub
    /\ InitSpec
    /\ InitEnumerateCall

SpecEnumerate == InitEnumerate /\ [][NextEnumerate]_vars

\* a Spec
SpecSchema == InitSubtable /\ [][NextSpec]_vars

\* two Specs and their comparison
InitComparison ==
    /\ InitLock /\ InitQuery /\ InitRefs /\ InitUpgrade /\ InitRefresh /\ NoBoundsCall /\ NoEnumerateCall
    /\ InitQuery
    /\ InitSub
    /\ InitCompare
    /\ InitColumn
    /\ kind = "int"
    /\ ~has_index
    /\ unique = FALSE

SpecCompare == InitComparison /\ [][NextCompare]_vars

\* the threads on one sub-table column
SpecLock == InitSubtable /\ [][NextLock]_vars

(***************************************************************************)
(* Properties.                                                             *)
(***************************************************************************)
Size == Column_size(Col)
\* the column after the step
ColAfter == [root |-> root', keys |-> keys', index |-> index', log |-> <<>>, thrown |-> ""]
Get(i) == Column_get(Col, i)

\* the leaves that hold strings: of a string column's tree, of an enum
\* column's key list
StringLeaves ==
    IF kind = "string" THEN {root.leaves[k] : k \in 1..Len(root.leaves)}
    ELSE IF kind = "enum" THEN {keys.leaves[k] : k \in 1..Len(keys.leaves)}
    ELSE {}

\* C1: a string column (StringColumn, and StringEnumColumn through its key
\* list) refines a plain sequence: after every insert, add, set, erase,
\* move_last_over, swap_rows and clear, from the empty column on, size() is
\* the length of the sequence and get(i) its element i, whatever the root is
\* (a small, medium or big leaf, or an inner node).
C1_RefinesSequence ==
    kind \in {"string", "enum"} =>
        /\ Size = Len(model)
        /\ \A i \in 0..(Size - 1) : Get(i) = model[i + 1]

\* C1 witness: an insert has upgraded a leaf below an inner root, so that
\* the column holds leaves of two encodings and still three rows
C1_Witness ==
    /\ kind = "string"
    /\ last.op = "insert"
    /\ root.inner
    /\ Size = 3
    /\ \E a, b \in StringLeaves : LeafRank(a) = 0 /\ LeafRank(b) = 2

\* C9: every leaf, the root or one below an inner root, holds only values
\* that fit its encoding: at most 15 bytes in a small leaf, at most 63 in a
\* medium leaf; longer values are in big leaves only.
C9_LeafHoldsFittingValues ==
    \A leaf \in StringLeaves : \A k \in 1..Len(leaf.elems) :
        /\ LeafRank(leaf) = 0 => leaf.elems[k].size <= small_string_max_size
        /\ LeafRank(leaf) = 1 => leaf.elems[k].size <= medium_string_max_size

\* C9 witness: a set or move_last_over has written a value longer than 63
\* bytes into a leaf below an inner root, next to a leaf of short values
C9_Witness ==
    /\ kind = "string"
    /\ last.op \in {"set", "move_last_over", "swap_rows"}
    /\ root.inner
    /\ \E a, b \in StringLeaves :
          /\ LeafRank(a) < 2
          /\ \E k \in 1..Len(b.elems) : b.elems[k].size > medium_string_max_size

\* C2: move_last_over(row, last) with row <= last and last + 1 = size, on a
\* column of any kind (string, string-enum, binary, integer): the size is
\* one less, get(row) is the value that was at last, and every other row
\* below last keeps its value; with row = last the last row is just removed.
C2_MoveLastOver ==
    [][last'.op = "move_last_over" =>
          LET row == last'.row
              last_row == last'.row2
          IN  /\ row <= last_row
              /\ last_row + 1 = Size
              /\ Column_size(ColAfter) = Size - 1
              /\ row # last_row => Column_get(ColAfter, row) = Get(last_row)
              /\ \A j \in 0..(last_row - 1) :
                    j # row => Column_get(ColAfter, j) = Get(j)]_vars

\* C2 witness: a binary column whose last row was moved over an earlier row
\* of another leaf
C2_Witness ==
    /\ kind = "binary"
    /\ last.op = "move_last_over"
    /\ last.row = 0
    /\ last.row2 = 2
    /\ Get(0) = StringData(65)
    /\ Get(1) = StringData(64)

LogSteps == {last.log[k].step : k \in 1..Len(last.log)}
IsIndexStep(e) ==
    e.step \in {"index.insert", "index.set", "index.erase", "index.update_ref",
                "index.clear"}

\* C5: in set, erase and move_last_over of every column with a search index
\* (StringColumn, StringEnumColumn, integer TColumn) every index step comes
\* before the first change of the tree, so the tree returns the old values
\* at each index step; the index steps of move_last_over(i, last) are
\* erase(i, is_last = true) and then, only if i # last,
\* update_ref(value at last, from last, to i).
C5_IndexStepsFirst ==
    (has_index /\ last.op \in {"set", "set_null", "erase", "move_last_over"}) =>
        /\ \A k \in 1..Len(last.log) :
              IsIndexStep(last.log[k]) =>
                  /\ last.log[k].old_values
                  /\ \A j \in 1..(k - 1) : IsIndexStep(last.log[j])
        /\ last.op = "move_last_over" =>
              /\ last.log[1].step = "index.erase"
              /\ last.log[1].row = last.row
              /\ last.log[1].is_last
              /\ IF last.row # last.row2
                 THEN /\ Len(last.log) = 3
                      /\ last.log[2].step = "index.update_ref"
                      /\ last.log[2].value = <<Get(last.row)>>
                      /\ last.log[2].row = last.row2
                      /\ last.log[2].to = last.row
                      /\ ~IsIndexStep(last.log[3])
                 ELSE /\ Len(last.log) = 2
                      /\ ~IsIndexStep(last.log[2])

\* C5 witness: an indexed string-enum column after a move_last_over that
\* moved the last row elsewhere
C5_Witness ==
    /\ has_index
    /\ kind = "enum"
    /\ last.op = "move_last_over"
    /\ last.row # last.row2
    /\ Len(last.log) = 3

C8_NullRejected ==
    [][(last'.op = "set_null" /\ ~nullable) =>
          /\ last'.thrown = "column_not_nullable"
          /\ root' = root
          /\ keys' = keys
          /\ index' = index]_vars

\* C8 witness: set_null was rejected on a string-enum column that has rows,
\* keys and an index
C8_Witness ==
    /\ kind = "enum"
    /\ last.op = "set_null"
    /\ last.thrown = "column_not_nullable"
    /\ has_index
    /\ Size > 0

\* C10: no operation on a string or binary column (set, insert, erase,
\* move_last_over, swap_rows, clear) replaces a leaf by one of a smaller
\* encoding: the lowest encoding among the column's leaves (string: small <
\* medium < big; binary: small < big) never goes down, also when the long
\* values are overwritten or removed.
C10_RankNeverDecreases ==
    kind \in {"string", "binary"} => MinRank(root) >= last.before.rank

\* C10 as the code has it: the lowest encoding never goes down under set,
\* insert, erase, move_last_over, swap_rows and under clear of a root leaf;
\* clear of a column whose root is an inner node replaces the tree by an
\* empty small leaf.
C10_RankDecreasesOnlyInClear ==
    kind \in {"string", "binary"} =>
        IF last.op = "clear" /\ last.before.inner
        THEN root = EmptyRoot(kind)
        ELSE MinRank(root) >= last.before.rank

\* C10 witness: the last long value of a big root leaf was overwritten by a
\* short one, or removed, and the leaf is still big; the big leaf became
\* the root when erase removed its sibling
C10_Witness ==
    /\ kind = "string"
    /\ last.op \in {"set", "erase", "move_last_over"}
    /\ last.before.inner
    /\ ~root.inner
    /\ LeafRank(root.leaves[1]) = 2
    /\ \A i \in 0..(Size - 1) : Get(i).size <= small_string_max_size

\* C4: on a string or string-enum column with a search index, after every
\* operation of any sequence of insert, set, erase, move_last_over, swap_rows
\* and clear, the index maps each value to exactly the rows that hold it, so
\* count, find_first and find_all answered by the index equal a scan.
C4_IndexAgreesWithColumn ==
    (has_index /\ kind \in {"string", "enum"}) =>
        /\ index = IndexOf(Col)
        /\ \A v \in Values :
              /\ StringIndex_find_all(index, v) = {i \in 0..(Size - 1) : Get(i) = v}
              /\ StringIndex_count(index, v) =
                     Cardinality({i \in 0..(Size - 1) : Get(i) = v})
              /\ StringIndex_find_first(index, v) =
                     (IF \E i \in 0..(Size - 1) : Get(i) = v
                      THEN CHOOSE i \in 0..(Size - 1) :
                               /\ Get(i) = v
                               /\ \A j \in 0..(i - 1) : Get(j) # v
                      ELSE not_found)

\* C7: when the search index rejects an insert or a set for the unique
\* constraint, it does so before any change of the tree: after the failed
\* call the column has the size and the values it had before.
C7_RejectedCallChangesNothing ==
    last.thrown = "unique_constraint" =>
        /\ Size = last.before.size
        /\ \A i \in 0..(Size - 1) : Get(i) = model[i + 1]

\* C3: on a sub-table column with a live accessor cached for the last row,
\* move_last_row_over(row, size) with row # last leaves that accessor live
\* and reporting row as its row in the parent, so that a following
\* get_subtable_tableref(row) returns the same accessor and creates no
\* second one; the nested table that was at row is destroyed, and an
\* accessor that was cached for row is detached.
C3_State ==
    (slast.op = "move_last_row_over" /\ slast.row # slast.last_row
        /\ slast.at_last # NoTable) =>
        /\ accessors[slast.at_last].state = "attached"
        /\ accessors[slast.at_last].ndx_in_parent = slast.row
        /\ SubtableMap_find(entries, slast.row) = slast.at_last
        /\ slast.old_ref # 0 => slast.old_ref \notin live_refs
        /\ slast.at_row # NoTable =>
              /\ accessors[slast.at_row].state = "detached"
              /\ \A i \in 1..Len(entries) : entries[i].m_table # slast.at_row

C3_Step ==
    (slast.op = "move_last_row_over" /\ slast.row # slast.last_row
        /\ slast.at_last # NoTable
        /\ slast'.op = "get_subtable_tableref" /\ slast'.row = slast.row) =>
        /\ slast'.result = slast.at_last
        /\ accessors' = accessors
        /\ entries' = entries

WrittenLeafBefore ==
    LET ndx == IF last'.op = "add" \/ last'.row = Size THEN npos ELSE last'.row
    IN  root.leaves[get_bptree_leaf(root, ndx).leaf]

WrittenRow == IF last'.op = "add" THEN Size ELSE last'.row

WrittenLeafAfter == root'.leaves[get_bptree_leaf(root', WrittenRow).leaf]

C12_ClearGivesSmallLeaf ==
    (last.op = "clear" /\ kind \in {"string", "binary"}) =>
        /\ Size = 0
        /\ root = EmptyRoot(kind)

\* C12: after clear a string or binary column is empty and its root is one
\* empty leaf: a small leaf if the root was an inner node, and a leaf of the
\* encoding the root leaf had otherwise; the search index is empty, so the
\* column differs from a fresh one in the encoding of its root leaf only.
C12_ClearGivesEmptyLeaf ==
    (last.op = "clear" /\ kind \in {"string", "binary"}) =>
        /\ Size = 0
        /\ ~root.inner
        /\ Len(root.leaves) = 1
        /\ root.leaves[1].elems = <<>>
        /\ index = {}
        /\ LeafRank(root.leaves[1]) = (IF last.before.inner THEN 0 ELSE last.before.rank)
        /\ LeafRank(root.leaves[1]) = 0 => root = EmptyRoot(kind)

\* C12 witness: clear emptied a big root leaf of a string column, and the
\* leaf still is a big leaf
C12_Witness ==
    /\ kind = "string"
    /\ last.op = "clear"
    /\ ~last.before.inner
    /\ last.before.size > 0
    /\ last.before.rank = 2
    /\ root.leaves[1].context_flag

\* the subspec entries of the columns before column i, counted per type
EntriesBefore(i) ==
    Cardinality({j \in 1..i : m_types[j] \in {"Table", "Link", "LinkList"}})
    + 2 * Cardinality({j \in 1..i : m_types[j] = "BackLink"})

\* C13: after any sequence of insert_column, erase_column and
\* upgrade_string_to_enum there are as many types as attributes, the names
\* and the backlink columns together are as many as the types, and the
\* subspecs array has the entries of all columns: Table, Link and LinkList
\* one each, BackLink two, every other type none.
C13_SpecSizes ==
    /\ Len(m_types) = Len(m_attr)
    /\ Len(m_names) + Cardinality({j \in 1..Len(m_types) : m_types[j] = "BackLink"})
           = Len(m_types)
    /\ Len(m_subspecs) = EntriesBefore(Len(m_types))

\* C13 witness: a Spec with a StringEnum, a Table, a Link and a BackLink column
C13_Witness ==
    /\ Len(m_types) = MaxColumns
    /\ \A t \in {"StringEnum", "Table", "Link", "BackLink"} :
          \E j \in 1..Len(m_types) : m_types[j] = t

\* C14 as stated: for every i in [0, column count] and whatever the type of
\* column i, get_subspec_ndx(i) returns the number of subspec entries of the
\* columns before i.
C14_SubspecNdxOfEveryColumn ==
    \A i \in 0..Len(m_types) : get_subspec_ndx(TheSpec, i) = Returns(EntriesBefore(i))

\* C14: for i the column count, and for every Table, Link, LinkList or
\* BackLink column i, get_subspec_ndx(i) returns the number of subspec
\* entries of the columns before i; for a column of another type the call
\* fails its assertion, and get_subspec_ndx_after(i, i) is what returns the
\* number.
C14_SubspecNdx ==
    \A i \in 0..Len(m_types) :
        /\ get_subspec_ndx_after(TheSpec, i, i) = EntriesBefore(i)
        /\ get_subspec_ndx(TheSpec, i) =
              (IF i = Len(m_types)
                  \/ m_types[i + 1] \in {"Table", "Link", "LinkList", "BackLink"}
               THEN Returns(EntriesBefore(i))
               ELSE Fatal)

\* C14 witness: the columns Int, Table, Link, BackLink, with subspec indices
\* 0, 1, 2 at the three last and 4 at the column count
C14_Witness ==
    /\ m_types = <<"Int", "Table", "Link", "BackLink">>
    /\ get_subspec_ndx(TheSpec, 0) = Fatal
    /\ get_subspec_ndx(TheSpec, 3) = Returns(2)
    /\ get_subspec_ndx(TheSpec, 4) = Returns(4)

\* C15: the child-Spec accessors are as many as the subspec entries, the
\* is-spec flag is set exactly at the subspec entries of Table columns,
\* which hold the nested specs, and every cached accessor at position k has
\* k as its index in the parent.
C15_SubspecPtrs ==
    /\ Len(m_subspec_ptrs) = Len(m_subspecs)
    /\ \A k \in 1..Len(m_subspec_ptrs) :
          /\ m_subspec_ptrs[k].m_is_spec_ptr <=>
                \E c \in 1..Len(m_types) :
                    m_types[c] = "Table" /\ EntriesBefore(c - 1) = k - 1
          /\ m_subspec_ptrs[k].m_is_spec_ptr <=> m_subspecs[k].is_ref
          /\ m_subspec_ptrs[k].m_spec # <<>> =>
                /\ m_subspec_ptrs[k].m_is_spec_ptr
                /\ m_subspec_ptrs[k].m_spec[1].ndx_in_parent = k - 1

\* C15 witness: a cached accessor of a nested spec behind the entry of a
\* link column that came before it
C15_Witness ==
    /\ Len(m_subspec_ptrs) >= 2
    /\ ~m_subspec_ptrs[1].m_is_spec_ptr
    /\ \E k \in 2..Len(m_subspec_ptrs) : m_subspec_ptrs[k].m_spec # <<>>

\* C16: the table index a column was last given is stored as 2t+1 and read
\* back by get_opposite_link_table_ndx, the origin column a backlink column
\* was last given is read back by get_origin_column_ndx, also after other
\* columns were inserted before the column or erased.
C16_Stored ==
    \A c \in 1..Len(m_types) :
        /\ links[c].table # 0 - 1 =>
              /\ m_subspecs[EntriesBefore(c - 1) + 1] = IntEntry(2 * links[c].table + 1)
              /\ get_opposite_link_table_ndx(TheSpec, c - 1) = Returns(links[c].table)
        /\ links[c].origin # 0 - 1 =>
              get_origin_column_ndx(TheSpec, c - 1) = Returns(links[c].origin)

\* C16, of one setter: it changes the entry of its column and no other
C16_SetterStep ==
    (m_types' = m_types /\ links' # links) =>
        \E c \in 1..Len(m_types) :
            /\ \A d \in 1..Len(m_types) : d # c => links'[d] = links[d]
            /\ \A k \in 1..Len(m_subspecs) :
                  m_subspecs'[k] # m_subspecs[k] =>
                      k = EntriesBefore(c - 1) +
                              (IF links'[c].table # links[c].table THEN 1 ELSE 2)

C16_TaggedRoundTrip == []C16_Stored /\ [][C16_SetterStep]_vars

\* C16 witness: a backlink column behind a Table column, with its table
\* index and its origin column both set
C16_Witness ==
    /\ Len(m_types) >= 2
    /\ m_types[1] = "Table"
    /\ m_types[2] = "BackLink"
    /\ links[2].table = 1
    /\ links[2].origin = 0
    /\ get_origin_column_ndx(TheSpec, 1) = Returns(0)

\* C17: the subspec entries of a Link, LinkList or BackLink column are zero
\* until set, and get_opposite_link_table_ndx and get_origin_column_ndx fail
\* for a column whose setter was never called.
C17_UnsetEntryFails ==
    \A c \in 1..Len(m_types) :
        /\ (m_types[c] \in {"Link", "LinkList", "BackLink"} /\ links[c].table = 0 - 1) =>
              /\ m_subspecs[EntriesBefore(c - 1) + 1] = IntEntry(0)
              /\ get_opposite_link_table_ndx(TheSpec, c - 1) = Fatal
        /\ (m_types[c] = "BackLink" /\ links[c].origin = 0 - 1) =>
              /\ m_subspecs[EntriesBefore(c - 1) + 2] = IntEntry(0)
              /\ get_origin_column_ndx(TheSpec, c - 1) = Fatal

RECURSIVE SameSpec(_, _)
\* two Specs agree: in column count, attributes and names, in the type of
\* every column up to String and StringEnum, in the nested specs of Table
\* columns and in the target tables of Link and LinkList columns
SameSpec(a, b) ==
    /\ Len(a.types) = Len(b.types)
    /\ a.attr = b.attr
    /\ a.names = b.names
    /\ \A c \in 1..Len(a.types) :
          /\ \/ a.types[c] = b.types[c]
             \/ {a.types[c], b.types[c]} \subseteq {"String", "StringEnum"}
          /\ a.types[c] = "Table" =>
                SameSpec(At(a.subspecs, get_subspec_ndx_after(a, c - 1, c - 1)).spec[1],
                         At(b.subspecs, get_subspec_ndx_after(b, c - 1, c - 1)).spec[1])
          /\ a.types[c] \in {"Link", "LinkList"} =>
                At(a.subspecs, get_subspec_ndx_after(a, c - 1, c - 1)) =
                    At(b.subspecs, get_subspec_ndx_after(b, c - 1, c - 1))

\* C18: operator== returns a boolean for every two well-formed Specs, true
\* exactly when they agree (so Link against LinkList, and Table against any
\* other type, is unequal), and the same boolean with the two Specs
\* exchanged.
C18_EqualIffSame ==
    equal # "none" =>
        /\ equal \in {"true", "false"}
        /\ equal = "true" <=> SameSpec(TheSpec, rhs)
        /\ operator_eq(rhs, TheSpec) = equal

\* the entries of the accessor map that hold the accessor a
EntriesOf(a) == {i \in 1..Len(entries) : entries[i].m_table = a}

C19_State ==
    /\ \A i, j \in 1..Len(entries) :
          i # j => entries[i].m_subtable_ndx # entries[j].m_subtable_ndx
    /\ \A a \in AccessorIds :
          /\ Cardinality(EntriesOf(a)) = (IF accessors[a].state = "attached" THEN 1 ELSE 0)
          /\ \A i \in EntriesOf(a) :
                /\ entries[i].m_subtable_ndx = accessors[a].ndx_in_parent
                /\ entries[i].m_subtable_ndx < Len(cells)

C19_Step ==
    slast'.op = "get_subtable_tableref" =>
        LET cached == SubtableMap_find(entries, slast'.row)
        IN  /\ SubtableMap_find(entries', slast'.row) = slast'.result
            /\ IF cached # NoTable
               THEN /\ slast'.result = cached
                    /\ entries' = entries
                    /\ accessors' = accessors
               ELSE /\ accessors[slast'.result].state = "free"
                    /\ accessors'[slast'.result].state = "attached"
                    /\ Len(entries') = Len(entries) + 1

\* C19: the accessor map holds at most one entry per row and exactly the
\* attached accessors, each at its row; get_subtable_tableref(row) returns
\* the cached accessor of the row and changes nothing when there is one,
\* and creates an accessor only when there is none; this after any sequence
\* of get_subtable_tableref, accessor destruction, detach_and_remove,
\* detach_and_remove_all and row moves.
C19_OneAccessorPerRow == []C19_State /\ [][C19_Step]_vars

\* a cached accessor was returned after accessors had been discarded
C19_Witness ==
    /\ slast.op = "get_subtable_tableref"
    /\ slast.at_row # NoTable
    /\ slast.result = slast.at_row
    /\ Len(entries) = 2
    /\ \E a \in AccessorIds : accessors[a].state = "detached"

C20_State ==
    /\ bound = (IF entries = <<>> THEN 0 ELSE 1)
    /\ \A a \in AccessorIds :
          LET r == SubtableMap_remove(entries, a)
          IN  r.last_entry_removed <=>
                  (Len(r.entries) < Len(entries) /\ r.entries = <<>>)
    /\ \A row \in 0..(MaxSubRows - 1) :
          LET r == SubtableMap_detach_and_remove(Sub, row)
          IN  r.last_entry_removed <=>
                  (Len(r.m.entries) < Len(entries) /\ r.m.entries = <<>>)
    /\ LET r == SubtableMap_detach_and_remove_all(Sub)
       IN  r.last_entry_removed <=>
               (Len(r.m.entries) < Len(entries) /\ r.m.entries = <<>>)

C20_Step ==
    /\ bound' = bound + 1 <=> (entries = <<>> /\ entries' # <<>>)
    /\ bound' = bound - 1 <=> (entries # <<>> /\ entries' = <<>>)
    /\ bound' # bound =>
          slast'.op \in (IF bound' > bound THEN {"get_subtable_tableref"}
                         ELSE {"release", "discard_subtable_accessor",
                               "discard_child_accessors", "move_last_row_over"})

\* C20: the column holds one reference on its parent table when the
\* accessor map is non-empty and none when it is empty; the reference is
\* taken exactly in the step that makes the empty map non-empty and given
\* back exactly in the removal that takes out the last entry; remove,
\* detach_and_remove and detach_and_remove_all return true exactly when
\* they removed an entry and left the map empty.
C20_ParentReference == []C20_State /\ [][C20_Step]_vars

\* a removal has taken the last entry out and the reference is given back
C20_Witness ==
    /\ slast.op = "discard_subtable_accessor"
    /\ slast.at_row # NoTable
    /\ entries = <<>>
    /\ bound = 0
    /\ \E a \in AccessorIds : accessors[a].state = "detached"

\* C21: when the map insertion of get_subtable_tableref throws, the created
\* accessor is destroyed and calls child_accessor_destroyed with a pointer
\* that is not in the map: remove returns false, the entries and the
\* references held on the parent table stay as they were, also when the map
\* is empty, and the accessor is gone.
C21_FailedCreationIsNoOp ==
    [][slast'.op = "get_subtable_tableref_add_throws" =>
          /\ ~SubtableMap_remove(entries, slast'.result).last_entry_removed
          /\ SubtableMap_remove(entries, slast'.result).entries = entries
          /\ entries' = entries
          /\ bound' = bound
          /\ accessors' = accessors
          /\ cells' = cells]_vars

\* the creation failed while the map was empty
C21_Witness ==
    /\ slast.op = "get_subtable_tableref_add_throws"
    /\ entries = <<>>
    /\ bound = 0

\* C22: an operation that has called unbind_ptr on the parent table touches
\* nothing of the column afterwards: not its tree, not its accessor map and
\* not its map lock.
C22_UnbindIsLast ==
    touch.what \in {"lock", "unlock", "map", "tree"} => ~touch.after_unbind

\* C23: every statement that reads or changes the accessor map runs while
\* its thread holds the map lock, and a thread that holds the lock is not
\* kept from locking it again.
C23_MapOnlyUnderLock ==
    /\ touch.what = "map" => touch.held
    /\ \A t \in Threads : lock_owner = t => ENABLED Acquire(t)

\* C24: in every state reachable through add, insert, set, set_null,
\* erase_rows and move_last_row_over, also when an operation ended with an
\* exception, each cell holds ref 0 or the ref of a nested table that has
\* not been destroyed.
C24_CellsHoldLiveRefs ==
    \A i \in 1..Len(cells) : cells[i] = 0 \/ cells[i] \in live_refs

\* the call that was made last had a row or a range outside the column
OutOfRangeCall ==
    \/ last.op \in {"get_out_of_range", "set_out_of_range", "erase_out_of_range",
                    "move_last_over_out_of_range", "swap_rows_out_of_range"}
    \/ /\ last.op \in {"find_first", "find_all"}
       /\ ~(/\ last.row <= last.before.size
            /\ last.row2 = npos \/ (last.row <= last.row2 /\ last.row2 <= last.before.size))

\* C25: a call with a row index >= size (get, set, erase, move_last_over,
\* swap_rows) or with begin > end or end > size (find_first, find_all) ends
\* in a fatal failure, and the column is as it was.
C25_OutOfRangeIsFatal ==
    OutOfRangeCall => (last.thrown = "fatal" /\ ColumnValues(Col) = model)

\* the rows of [begin, end') that hold the value of the last search, rising
MatchingRows ==
    LET e == IF last.row2 = npos THEN Size ELSE last.row2
        candidates == [i \in 1..(e - last.row) |-> last.row + i - 1]
    IN  SelectSeq(candidates, LAMBDA r : model[r + 1] = last.value[1])

\* C26: for begin <= end' <= size, find_first returns the smallest row of
\* [begin, end') that holds the value, or not_found, and find_all appends
\* exactly the rows of [begin, end') that hold it, in rising order: with a
\* leaf or an inner node as root, with and without a search index.
C26_FindInRange ==
    (last.op \in {"find_first", "find_all"} /\ ~OutOfRangeCall) =>
        /\ last.thrown = ""
        /\ Len(last.log) = 1
        /\ last.log[1].step = "return"
        /\ last.op = "find_all" => last.log[1].value = MatchingRows
        /\ last.op = "find_first" =>
              last.log[1].value =
                  <<IF MatchingRows = <<>> THEN not_found ELSE MatchingRows[1]>>

\* a search of a part of a column whose root is an inner node, without the
\* search index, found a row that is not the first row of the value
C26_Witness ==
    /\ last.op = "find_first"
    /\ ~OutOfRangeCall
    /\ ~root_is_leaf(root)
    /\ last.row > 0
    /\ last.log[1].value[1] # not_found
    /\ \E r \in 0..(last.row - 1) : model[r + 1] = last.value[1]

\* the rows of the table that satisfy every condition of the query, rising
SatisfyingRows ==
    SelectSeq([i \in 1..Len(ttt) |-> i - 1],
              LAMBDA r : \A i \in 1..Len(chain) : Match(chain[i], ttt[r + 1]))

\* the table of TestQueryFindAll1
TestRows ==
    <<TupleTableType(1, "a"), TupleTableType(2, "a"), TupleTableType(3, "X"),
      TupleTableType(4, "a"), TupleTableType(5, "a"), TupleTableType(6, "X"),
      TupleTableType(7, "X")>>

C28_DestroySubtree ==
    dlast.op = "destroy_subtree" =>
        LET value == At(dlast.before.slots, dlast.ndx)
        IN  IF value = 0 \/ value % 2 = 1
            THEN /\ allocated = dlast.before.allocated
                 /\ slots = dlast.before.slots
            ELSE /\ allocated = dlast.before.allocated \ {value}
                 /\ slots = IF dlast.clear_value
                            THEN SetAt(dlast.before.slots, dlast.ndx, 0)
                            ELSE dlast.before.slots

\* a subtree has been freed and its cell cleared, next to a cell that
\* holds a tagged integer
C28_Witness ==
    /\ dlast.op = "destroy_subtree"
    /\ dlast.clear_value
    /\ At(dlast.before.slots, dlast.ndx) \in SlotRefs
    /\ At(slots, dlast.ndx) = 0
    /\ \E i \in 1..Len(slots) : slots[i] % 2 = 1

\* C29: detach is idempotent and leaves is_attached() false, and every
\* later operation on the detached column ends in a fatal failure, the
\* storage neither read nor changed.
C29_DetachedIsFatal ==
    /\ last.op = "detach" => ~attached
    /\ (~attached /\ last.op \in ColumnOperations) =>
          (last.thrown = "fatal" /\ last.log = <<>>)

\* C30: in every leaf upgrade the steps are: allocate the new leaf, copy
\* all elements, rewire the parent slot, destroy the old leaf, apply the
\* mutation. The parent slot and the column root never point to the new
\* leaf before all elements of the old leaf have been copied into it.
C30_CopyBeforeRewire ==
    /\ parent_slot = "new_leaf" => (new_leaf.created /\ new_leaf.size >= old_leaf.size)
    /\ root_accessor = "new_leaf" => (new_leaf.created /\ new_leaf.size >= old_leaf.size)
    /\ ~old_leaf.alive /\ upgrade # NoUpgrade => parent_slot = "new_leaf"
    /\ new_leaf.mutated => ~old_leaf.alive

\* the StringEnum columns, in column order
EnumColumns == SelectSeq([i \in 1..Len(m_types) |-> i], LAMBDA c : m_types[c] = "StringEnum")

\* C31: after any sequence of insert_column, erase_column and
\* upgrade_string_to_enum, enumkeys holds exactly one entry per StringEnum
\* column, and entry j is the key list of the j-th StringEnum column.
C31_OneKeyListPerEnumColumn ==
    /\ Len(m_enumkeys) = Len(EnumColumns)
    /\ \A j \in 1..Len(EnumColumns) :
          j <= Len(m_enumkeys) => m_enumkeys[j] = links[EnumColumns[j]].keys

\* C33: column i is below names.size exactly when it is not a BackLink
\* column, in every state reached by insert_column at any place with any
\* type and by erase_column; so the assertion of erase_column holds for
\* every column, and the backlink columns are those from names.size on.
C33_NamesIffNotBacklink ==
    \A i \in 0..(Len(m_types) - 1) : (i < Len(m_names)) = (At(m_types, i) # "BackLink")

\* C34: the top array has 3 to 5 slots, m_subspecs is attached exactly when
\* slot 3 exists and holds a ref, and m_enumkeys is attached exactly when
\* there are 5 slots: the assertions of init, insert_column and
\* upgrade_string_to_enum hold before every operation.
C34_TopArray ==
    /\ Len(m_top) >= 3 /\ Len(m_top) <= 5
    /\ m_subspecs_attached = has_subspec(TheSpec)
    /\ m_enumkeys_attached = (Len(m_top) > 4)

\* a String column was upgraded before the first column with subspec
\* entries was inserted, or after it
C34_Witness ==
    /\ Len(m_top) = 5
    /\ m_subspecs_attached
    /\ \E c \in 1..Len(m_types) : m_types[c] = "StringEnum"
    /\ \E c \in 1..Len(m_types) : m_types[c] = "Table"

\* the visits made to the accessor of an entry
VisitsOf(table) == {k \in 1..Len(visits) : visits[k].table = table}

\* the map of the start held an entry that the loop saw before its end
SelfRemovalMovedAnEntry ==
    /\ Len(start_entries) >= 2
    /\ \E k \in 1..Len(start_entries) :
          /\ k < Len(start_entries)
          /\ ~tables[start_entries[k].m_table].in_map
          /\ tables[start_entries[Len(start_entries)].m_table].in_map

\* C32: when SubtableMap::refresh_accessor_tree has ended, every entry that
\* was in the map when it started was visited exactly once and no other
\* visit was made; the visit set the accessor's index in parent to the
\* entry's cached row, and refreshed the accessor tree and bumped the version
\* once if the accessor was marked, and only the Spec accessor otherwise;
\* no entry was read that was no longer in the map, also when visited
\* accessors removed themselves from the map at the end of their visit
C32_RefreshVisitsEachEntryOnce ==
    /\ ~bad_read
    /\ refresh_pc \in {"loop", "visiting"} => loop_i <= Len(map_entries)
    /\ refresh_pc = "done" =>
          /\ Len(visits) = Len(start_entries)
          /\ \A k \in 1..Len(start_entries) :
                LET entry == start_entries[k]
                    table == tables[entry.m_table]
                IN  /\ Cardinality(VisitsOf(entry.m_table)) = 1
                    /\ \A v \in VisitsOf(entry.m_table) :
                          /\ visits[v].ndx = entry.m_subtable_ndx
                          /\ visits[v].tree => table.tree_refreshes = 1 /\ table.version = 1
                                                /\ table.spec_refreshes = 0
                          /\ ~visits[v].tree => table.tree_refreshes = 0 /\ table.version = 0
                                                 /\ table.spec_refreshes = 1
                    /\ table.ndx_in_parent = entry.m_subtable_ndx

\* a refresh of three entries has ended in which an accessor removed
\* itself and the last entry was moved over it
C32_Witness ==
    /\ refresh_pc = "done"
    /\ Len(start_entries) = MaxRefreshEntries
    /\ SelfRemovalMovedAnEntry
    /\ \E k \in 1..Len(visits) : visits[k].tree
    /\ \E k \in 1..Len(visits) : ~visits[k].tree

\* the position of a value in a key list that holds it
KeyNdxOf(T, value) == CHOOSE i \in 0..(tree_size(T) - 1) : tree_get(T, i) = value

InKeys(T, value) == \E i \in 0..(tree_size(T) - 1) : tree_get(T, i) = value

\* the rows an insert, add or set has written
WrittenRows ==
    IF last'.op \in {"set", "set_null"} THEN {last'.row}
    ELSE IF last'.op = "add" THEN {tree_size(root)}
    ELSE last'.row..(last'.row + last'.num_rows - 1)

\* the key list has no duplicate and every row's key index is below its size
EnumKeysWellFormed ==
    kind = "enum" =>
        /\ \A i, j \in 0..(tree_size(keys) - 1) :
              i # j => tree_get(keys, i) # tree_get(keys, j)
        /\ \A r \in 0..(tree_size(root) - 1) :
              tree_get(root, r) \in 0..(tree_size(keys) - 1)

\* set and insert of a value of the key list reuse its index and add no
\* key; an insert of no rows changes nothing
EnumKeysReused ==
    kind = "enum" =>
        /\ (/\ last'.op \in {"set", "set_null", "insert", "add"}
            /\ last'.thrown = ""
            /\ last'.op \in {"insert", "add"} => last'.num_rows > 0
            /\ InKeys(keys, last'.value[1])) =>
               /\ keys' = keys
               /\ \A r \in WrittenRows :
                     tree_get(root', r) = KeyNdxOf(keys, last'.value[1])
        /\ (last'.op = "insert" /\ last'.num_rows = 0) =>
               /\ keys' = keys
               /\ root' = root
               /\ index' = index

\* C35: in every state of a StringEnumColumn the key list has no duplicate
\* and every row's key index is below the key list's size; set and insert
\* of a value already in the key list reuse its index and add no key, and
\* an insert with num_rows = 0 changes neither key list, rows nor index
C35_EnumKeys == []EnumKeysWellFormed /\ [][EnumKeysReused]_vars

\* a value of the key list was inserted again after the key list had grown
\* to two keys, and rows of both keys exist
C35_Witness ==
    /\ kind = "enum"
    /\ last.op \in {"insert", "set"}
    /\ last.thrown = ""
    /\ tree_size(keys) = 2
    /\ tree_size(root) = MaxRows
    /\ \E r \in 0..(tree_size(root) - 1) : tree_get(root, r) = 0
    /\ Cardinality({r \in 0..(tree_size(root) - 1) : tree_get(root, r) = 1}) >= 2

\* clear, erase, move_last_over and swap_rows leave the key list as it
\* is; after clear the column is empty; an insert, add or set that follows a
\* clear with a value of the key list gives the rows its old key index
EnumKeysAppendOnly ==
    kind = "enum" =>
        /\ last'.op \in {"clear", "erase", "move_last_over", "swap_rows"} =>
               /\ keys' = keys
               /\ KeyValues(keys') = KeyValues(keys)
        /\ last'.op = "clear" =>
               /\ tree_size(root') = 0
               /\ \A i \in 0..(tree_size(keys) - 1) :
                     get_key_ndx([Col EXCEPT !.keys = keys'], tree_get(keys, i)) = i
        /\ (/\ last.op = "clear"
            /\ last'.op \in {"insert", "add"}
            /\ last'.num_rows > 0
            /\ InKeys(keys, last'.value[1])) =>
               /\ KeyValues(keys') = KeyValues(keys)
               /\ \A r \in 0..(tree_size(root') - 1) :
                     tree_get(root', r) = KeyNdxOf(keys, last'.value[1])

\* C36: the key list of a StringEnumColumn is append-only: clear, erase,
\* move_last_over and swap_rows leave it unchanged, and after clear the
\* column has size 0 while every earlier key is still there at its
\* position, so that a later insert of an earlier value gets its old key
\* index
C36_KeysAppendOnly == [][EnumKeysAppendOnly]_vars

\* the second key of the key list was inserted into an empty column: the
\* key list outlived the rows
C36_Witness ==
    /\ kind = "enum"
    /\ last.op \in {"insert", "add"}
    /\ last.before.size = 0
    /\ tree_size(keys) = 2
    /\ tree_size(root) > 0
    /\ tree_get(root, 0) = 1

\* the number of elements of the list equal to the value
EqualCount == Cardinality({k \in 1..Len(b_list) : b_list[k] = b_value})

\* every element before i is less than the value and none from i on is
IsLowerBound(i) ==
    /\ \A k \in 1..Len(b_list) : k <= i => b_list[k] < b_value
    /\ \A k \in 1..Len(b_list) : k > i => ~(b_list[k] < b_value)

\* every element from i on is greater than the value
IsUpperBound(i) == \A k \in 1..Len(b_list) : k > i => b_list[k] > b_value

BoundsReturned ==
    b_pc = "done" =>
        /\ b_lower \in 0..Len(b_list)
        /\ IsLowerBound(b_lower)
        /\ \A i \in 0..(b_lower - 1) : ~IsLowerBound(i)
        /\ b_upper \in 0..Len(b_list)
        /\ IsUpperBound(b_upper)
        /\ \A i \in 0..(b_upper - 1) : ~IsUpperBound(i)
        /\ b_lower <= b_upper
        /\ b_upper - b_lower = EqualCount

\* C39: on every list sorted in ascending order and for every value,
\* lower_bound and upper_bound both return; lower_bound returns the
\* smallest index in 0..size with every element before it less than the
\* value and none from it on less, upper_bound the smallest index with
\* every element from it on greater than the value; lower_bound <=
\* upper_bound, and they differ by the number of elements equal to the value
C39_Bounds == []BoundsReturned /\ <>(b_pc = "done")

\* both have returned on a list of full length that holds the value more
\* than once, with smaller elements before and greater ones after
C39_Witness ==
    /\ b_pc = "done"
    /\ Len(b_list) = MaxListLen
    /\ EqualCount = 2
    /\ b_lower = 1
    /\ b_upper = 3

\* the distinct values of the source column
Distinct == {source[i] : i \in 1..Len(source)}

\* C37: whenever auto_enumerate has returned true, the key column is
\* strictly ascending, so without duplicates, and holds exactly the distinct
\* values of the source column; the value column has the source's size and
\* keys[values[i]] = get(i) for every row i; the call fails no assertion and
\* leaves the source column as it is
C37_AutoEnumerate ==
    /\ [](/\ enumerated.returned # "fatal"
          /\ enumerated.returned = "true" =>
                /\ \A k \in 1..(tree_size(enumerated.keys) - 1) :
                      ranks(enumerated.keys)[k] < ranks(enumerated.keys)[k + 1]
                /\ {tree_get(enumerated.keys, k) :
                        k \in 0..(tree_size(enumerated.keys) - 1)} = Distinct
                /\ tree_size(enumerated.values) = Len(source)
                /\ \A i \in 0..(Len(source) - 1) :
                      /\ tree_get(enumerated.values, i) \in 0..(tree_size(enumerated.keys) - 1)
                      /\ tree_get(enumerated.keys, tree_get(enumerated.values, i))
                            = At(source, i))
    /\ [][source' = source /\ root' = root]_vars

\* a column of full size whose rows are not in order and repeat a value has
\* been enumerated into a key column of more than one leaf
C37_Witness ==
    /\ enumerated.returned = "true"
    /\ ~enforce
    /\ Len(source) = MaxSourceRows
    /\ Cardinality(Distinct) = 3
    /\ StringData_rank(source[1]) > StringData_rank(source[2])
    /\ enumerated.keys.inner

\* C38: with enforce = false, auto_enumerate returns false exactly when the
\* column of n rows has more than floor(n / 2) + 1 distinct values, and
\* then it assigns neither keys_ref nor values_ref and has destroyed the
\* temporary key column; with enforce = true it returns true for every
\* column, the empty one too
C38_Threshold ==
    enumerated.returned # "" =>
        /\ (enumerated.returned = "false") <=>
              (~enforce /\ Cardinality(Distinct) > (Len(source) \div 2) + 1)
        /\ enumerated.returned = "false" =>
              /\ ~enumerated.keys_ref
              /\ ~enumerated.values_ref
              /\ enumerated.keys_destroyed
        /\ enumerated.returned # "false" =>
              /\ enumerated.returned = "true"
              /\ enumerated.keys_ref
              /\ enumerated.values_ref
              /\ ~enumerated.keys_destroyed

\* a column of full size with one distinct value too many was given up
C38_Witness ==
    /\ enumerated.returned = "false"
    /\ Len(source) = MaxSourceRows
    /\ Cardinality(Distinct) = (MaxSourceRows \div 2) + 2
    /\ enumerated.keys_destroyed

\* a column at the threshold was enumerated, and so was the empty one under
\* enforce
EnumeratedAtThreshold ==
    /\ enumerated.returned = "true"
    /\ ~enforce
    /\ Len(source) = MaxSourceRows
    /\ Cardinality(Distinct) = (MaxSourceRows \div 2) + 1

\* no leaf below an inner root is empty, and an inner root has two
\* children or more
NoEmptyLeaf(T) ==
    T.inner => /\ Len(T.leaves) >= 2
               /\ \A k \in 1..Len(T.leaves) : leaf_size(T.leaves[k]) > 0

\* the loop of count is at the first element of a leaf in every iteration,
\* and every iteration moves it forward, at most to the end
CountAdvances(T) ==
    \A k \in 1..Len(T.leaves) :
        LET begin == LeafOffset(T.leaves, k)
            step == count_step(T, begin)
        IN  begin < get_bptree_size(T) =>
                /\ step.ndx_in_leaf = 0
                /\ step.begin > begin
                /\ step.begin <= get_bptree_size(T)

\* every iteration of the loop of find_first and find_all moves the scan
\* forward, at most to the end of the range
FindAdvances(T) ==
    \A begin \in 0..get_bptree_size(T), end \in 0..get_bptree_size(T) :
        begin < end => /\ find_step(T, begin, end) > begin
                       /\ find_step(T, begin, end) <= end

\* a leaf with one element is reported for removal as it is
SingleElementLeafReported(T) ==
    \A k \in 1..Len(T.leaves) :
        leaf_size(T.leaves[k]) = 1 =>
            \A ndx \in {0, npos} :
                erase_leaf_elem(T.leaves[k], ndx) = [leaf |-> T.leaves[k], destroy |-> TRUE]

\* C40: in every reachable tree of a string column no leaf below an inner
\* root is empty and an empty tree has a leaf for its root, so that every
\* iteration of the leaf loops of count, find_first and find_all moves the
\* scan strictly forward within the range and the scans end; a leaf with a
\* single element is reported by the erase handler as it is, and an erase
\* or clear leaves no empty leaf below an inner root
C40_ScansAdvance ==
    kind = "string" =>
        /\ NoEmptyLeaf(root)
        /\ tree_size(root) = 0 => root = RootLeaf(root.leaves[1]) /\ ~root.inner
        /\ last.op = "clear" /\ last.before.inner => root = RootLeaf(ArrayString_create)
        /\ SingleElementLeafReported(root)
        /\ root.inner =>
              /\ CountAdvances(root)
              /\ FindAdvances(root)
              /\ \A v \in Values, begin \in 0..tree_size(root), end \in 0..tree_size(root) :
                    begin <= end =>
                        /\ scan_find_first(root, v, begin, end)
                              \in {not_found} \cup begin..(end - 1)
                        /\ Len(scan_find_all(root, v, begin, end)) <= end - begin

\* an erase in a leaf with one element below an inner root: the leaf was
\* removed and the other leaf became the root
LeafRemoved ==
    /\ kind = "string"
    /\ last.op = "erase"
    /\ last.before.inner
    /\ last.before.size = 2
    /\ ~root.inner
    /\ tree_size(root) = 1

\* an erase has left an inner root over two leaves of one element each,
\* which the scans walk leaf by leaf
C40_Witness ==
    /\ kind = "string"
    /\ root.inner
    /\ last.op = "erase"
    /\ last.before.inner
    /\ tree_size(root) = 2
    /\ \A k \in 1..Len(root.leaves) : leaf_size(root.leaves[k]) = 1
    /\ find_step(root, 0, 2) = 1

====
